---- MODULE Spec2Model ----
(***************************************************************************)
(* Playback resolution and streaming proxy of the MUSIC server             *)
(* (StreamResolver): the resolution cache, resolve, proxy with its         *)
(* single retry and yt-dlp fallback, and the byte-range computation;       *)
(* with it the cookie agent, the metadata service (YTMusicService), the     *)
(* error handler of the HTTP layer and the search view model of the iOS    *)
(* app.                                                                    *)
(*                                                                         *)
(* Optional values (null / undefined in the source) are tuples:            *)
(* <<>> is "no value", <<x>> is the value x.                               *)
(***************************************************************************)
EXTENDS Integers, Sequences, FiniteSets, TLC

VARIABLES
    scope,            \* which requests the clients of this behaviour make
    resolverEnabled,  \* config.playback.resolverEnabled
    proxyEnabled,     \* config.playback.proxyEnabled
    cookieConfig,     \* config.playback.ytdlCookiesJson, config.ytmusic.cookies
    now,              \* Date.now(), in milliseconds
    resolutionCache,  \* StreamResolver.resolutionCache: videoId -> entry
    req,              \* the in-flight HTTP requests (one async call each)
    callsStarted,     \* number of resolve/proxy calls started so far
    lastPut,          \* per videoId, the latest setCachedResolution not
                      \* followed by a clearCachedResolution: when and what
    agent,            \* StreamResolver.agent: undefined, null or an agent
    agentLog,         \* what getAgent has done so far
    rangeIn,          \* range computation: the inputs drawn
    rangeOut,         \* range computation: the outcome
    selectIn,         \* format selection: the formats the upstream returned
    selectOut,        \* format selection: the outcome
    unitIn,           \* a helper on its own: the input drawn
    unitOut,          \* a helper on its own: what it returned
    ytmusic,          \* YTMusicService: initialized, initPromise, the
                      \* initialize attempts and the callers of the service
    search            \* SearchViewModel of the iOS app, with its tasks

config == <<scope, resolverEnabled, proxyEnabled, cookieConfig>>
rangeVars == <<rangeIn, rangeOut>>
selectVars == <<selectIn, selectOut>>
unitVars == <<unitIn, unitOut>>
serviceVars == <<ytmusic, search>>
pureVars == <<rangeVars, selectVars, unitVars, serviceVars>>
agentVars == <<agent, agentLog>>
vars == <<config, now, resolutionCache, req, callsStarted, lastPut, agentVars,
          pureVars>>

-----------------------------------------------------------------------------
(* Bounds of the model *)

T0 == 100000          \* the clock value when the process starts (ms)
MaxCalls == 2         \* resolve/proxy calls started in one behaviour
StepCap == 5          \* awaited calls one request may make (never reached)
MaxDigit == 3         \* digit characters used in Range numbers: 0..MaxDigit
MaxDigits == 2        \* length of the digit strings in a Range header
MaxTotal == 12        \* largest content length in the range computation
MaxFormats == 3       \* formats in one answer of the format selection
MaxExpire == 60       \* largest expire parameter given to the Expiry Parser

(* Program constants *)

SafetyWindowMs == 5000      \* Date.now() + 5_000
ExpiryMarginMs == 30000     \* rawExpiryMs - 30_000
MaxCandidates == 5          \* audioOnly.slice(0, 5)
IosBonus == 1000            \* isIosFriendlyAudio(a) ? 1_000 : 0

(* Non-finite numbers of the source: values of Number(...) that are not     *)
(* integers.  They are only ever tested with IsFinite before arithmetic.   *)
NaN == -1
Infinity == -2

Null == <<>>
Some(x) == <<x>>
IsNull(o) == o = <<>>
Val(o) == o[1]

Max(a, b) == IF a >= b THEN a ELSE b
Min(a, b) == IF a <= b THEN a ELSE b

VideoIds == {"v1", "v2"}
Reqs == {1, 2}

-----------------------------------------------------------------------------
(* Numbers and dates *)

\* Number.isFinite
IsFinite(n) == n # NaN /\ n # Infinity

\* the time-unit conversion of setCachedResolution's fallback TTL
fallbackTtlMs == 3 * 60 * 1000

\* new Date(ms).toISOString(): the calendar fields of the instant; here the
\* whole seconds and the milliseconds within the second, which the ISO text
\* writes apart ("...:SS.mmmZ").  A time value outside the Date range throws.
ToISOString(ms) == [sec |-> ms \div 1000, msec |-> ms % 1000]

\* Date.parse of such a text
DateParse(iso) == iso.sec * 1000 + iso.msec

-----------------------------------------------------------------------------
(* Signed URLs and the Expiry Parser                                        *)
(* A URL is [parsable, tag, expire]: whether new URL(url) accepts it, what   *)
(* distinguishes it from other URLs, and its `expire` query parameter:       *)
(* [kind |-> "absent"], "empty" (expire=), "text" (not a number), "blank"    *)
(* (white space only, as in expire=+), "infinite" (the text Infinity),       *)
(* "num" (decimal seconds n), "huge" (a number beyond the Date range).       *)

Expire(kind, n) == [kind |-> kind, n |-> n]
Url(tag, expire) == [parsable |-> TRUE, tag |-> tag, expire |-> expire]

\* Number(expire) for the parameter's text; a "huge" number is finite but
\* its Date is invalid, which parseExpiryFromUrl tests by kind
NumberOfExpire(e) ==
    CASE e.kind = "num"      -> e.n
      [] e.kind = "huge"     -> 0
      [] e.kind = "blank"    -> 0          \* Number(" ") is 0
      [] e.kind = "infinite" -> Infinity
      [] OTHER               -> NaN

\* parseExpiryFromUrl: Some(ISO timestamp) or Null
parseExpiryFromUrl(urlOpt) ==
    IF IsNull(urlOpt) THEN Null
    ELSE LET url == Val(urlOpt) IN
      IF ~url.parsable THEN Null                      \* new URL throws
      ELSE IF url.expire.kind \in {"absent", "empty"} THEN Null
      ELSE LET n == NumberOfExpire(url.expire) IN
        IF ~IsFinite(n) THEN Null
        ELSE IF url.expire.kind = "huge" THEN Null       \* toISOString throws
        ELSE Some(ToISOString(n * 1000))

-----------------------------------------------------------------------------
(* Format Selector *)

\* toLowerCase (and the i flag of a pattern), on the texts that occur in
\* format descriptors and in error messages
ToLower(s) ==
    CASE s = "AUDIO/MP4" -> "audio/mp4"
      [] s = "M4A"       -> "m4a"
      [] s = "MP4"       -> "mp4"
      [] s = "WEBM"      -> "webm"
      [] s = "Sign"      -> "sign"
      [] s = "SIGN"      -> "sign"
      [] s = "IN"        -> "in"
      [] s = "TO"        -> "to"
      [] s = "CONFIRM"   -> "confirm"
      [] s = "HTTP://"   -> "http://"
      [] s = "HTTPS://"  -> "https://"
      [] s = "A"         -> "a"
      [] OTHER           -> s

\* A mimeType is Null or Some([essence, params]), the text essence;params.
\* mime.includes("audio/mp4"): the parameters here never hold that text.
isIosFriendlyAudio(format) ==
    LET mime == IF IsNull(format.mimeType) THEN ""
                ELSE ToLower(Val(format.mimeType).essence)
        container == IF IsNull(format.container) THEN ""
                     ELSE ToLower(Val(format.container))
    IN mime = "audio/mp4" \/ container = "m4a" \/ container = "mp4"

\* a score without the bonus of the preferred formats
Score_BitrateOnly(format) ==
    IF IsNull(format.audioBitrate) THEN 0 ELSE Val(format.audioBitrate)

Score(format) ==
    (IF isIosFriendlyAudio(format) THEN IosBonus ELSE 0)
    + (IF IsNull(format.audioBitrate) THEN 0 ELSE Val(format.audioBitrate))

\* insertion of f into a sequence sorted by descending score, after every
\* element whose score is not smaller (Array.prototype.sort is stable)
\* an insertion that puts a format before the earlier ones of equal score
RECURSIVE InsertByScore_Unstable(_, _)
InsertByScore_Unstable(f, sorted) ==
    IF sorted = <<>> THEN <<f>>
    ELSE IF Score(Head(sorted)) > Score(f)
         THEN <<Head(sorted)>> \o InsertByScore_Unstable(f, Tail(sorted))
         ELSE <<f>> \o sorted

RECURSIVE InsertByScore(_, _)
InsertByScore(f, sorted) ==
    IF sorted = <<>> THEN <<f>>
    ELSE IF Score(Head(sorted)) >= Score(f)
         THEN <<Head(sorted)>> \o InsertByScore(f, Tail(sorted))
         ELSE <<f>> \o sorted

RECURSIVE SortFrom(_, _)
SortFrom(formats, acc) ==
    IF formats = <<>> THEN acc
    ELSE SortFrom(Tail(formats), InsertByScore(Head(formats), acc))

sortAudioFormats(formats) == SortFrom(formats, <<>>)

\* ytdl.filterFormats(formats, "audioonly")
filterAudioOnly(formats) ==
    SelectSeq(formats, LAMBDA f : f.hasAudio /\ ~f.hasVideo)

-----------------------------------------------------------------------------
(* YTMusicService.ensureInitialized                                          *)
(* An attempt is one run of the async function stored in initPromise:        *)
(* "calling" while client.initialize is awaited, "fulfilled" once            *)
(* initialized is set, "thrown" when the function has thrown and the catch   *)
(* handler has not run yet, "rejected" after the handler.  A caller is one   *)
(* call of a service method from its ensureInitialized to its end.           *)

MaxAttempts == 3
MaxCallers == 2
Callers == 1..MaxCallers

IdleCaller == [pc |-> "idle", awaits |-> 0, found |-> Null]

\* new YTMusicService()
NoService ==
    [initialized |-> FALSE, initPromise |-> Null, attempts |-> <<>>,
     callers |-> [c \in Callers |-> IdleCaller]]

\* the async function of initPromise up to its await: client.initialize is
\* called; what the caller had seen of the service is kept with the attempt
StartAttempt(svc, c) ==
    [svc EXCEPT !.attempts = Append(@, [state |-> "calling", by |-> c,
                                        late |-> svc.initialized]),
                !.initPromise = Some(Len(svc.attempts) + 1)]

\* an ensureInitialized that starts an attempt of its own whenever the client
\* is not initialized yet
ensureInitialized_NoSlot(svc, c) ==
    IF svc.initialized
    THEN [svc EXCEPT !.callers[c] = [pc |-> "returned", awaits |-> 0,
                                     found |-> svc.initPromise]]
    ELSE LET started == StartAttempt(svc, c)
         IN [started EXCEPT !.callers[c] =
                 [pc |-> "awaiting", awaits |-> Val(started.initPromise),
                  found |-> svc.initPromise]]

\* ensureInitialized up to its await
ensureInitialized(svc, c) ==
    IF svc.initialized
    THEN [svc EXCEPT !.callers[c] = [pc |-> "returned", awaits |-> 0,
                                     found |-> svc.initPromise]]
    ELSE LET started == IF IsNull(svc.initPromise) THEN StartAttempt(svc, c)
                        ELSE svc
         IN [started EXCEPT !.callers[c] =
                 [pc |-> "awaiting", awaits |-> Val(started.initPromise),
                  found |-> svc.initPromise]]

\* client.initialize has answered (ok: with a client) or thrown: the rest of
\* the async function
AfterInitialize(svc, k, ok) ==
    IF ok
    THEN [svc EXCEPT !.initialized = TRUE, !.attempts[k].state = "fulfilled"]
    ELSE [svc EXCEPT !.attempts[k].state = "thrown"]

\* the handler given to catch
OnInitRejected(svc, k) ==
    [svc EXCEPT !.initPromise = Null, !.attempts[k].state = "rejected"]

\* await this.initPromise, settled: ensureInitialized returns or throws
AfterAwait(svc, c) ==
    [svc EXCEPT !.callers[c].pc =
        IF svc.attempts[svc.callers[c].awaits].state = "fulfilled"
        THEN "returned" ELSE "failed"]

-----------------------------------------------------------------------------
(* Cookies and the agent                                                     *)
(* The cookie configuration is [json, header].                               *)
(* json is config.playback.ytdlCookiesJson: Null when unset, else the text,  *)
(* told by what JSON.parse makes of it: empty (the empty string), parses,    *)
(* isArray, and the entries of the array.  An entry is a JSON value of some  *)
(* type; an object has a name and a value, each absent, a number or a string *)
(* of characters, and a domain.                                              *)
(* header is config.ytmusic.cookies: Null when unset, else a sequence of     *)
(* characters.                                                               *)

CookieConfig(json, header) == [json |-> json, header |-> header]
NoCookies == CookieConfig(Null, Null)

JAbsent == [type |-> "absent", text |-> <<>>]
JNumber == [type |-> "number", text |-> <<>>]
JString(text) == [type |-> "string", text |-> text]

JsonEntry(type, truthy, name, value, domain) ==
    [type |-> type, truthy |-> truthy, name |-> name, value |-> value,
     domain |-> domain]
JsonObject(name, value, domain) == JsonEntry("object", TRUE, name, value, domain)
\* null, 0, 1, "", "a", [ ]
JsonScalars ==
    { JsonEntry("null", FALSE, JAbsent, JAbsent, ""),
      JsonEntry("number", FALSE, JAbsent, JAbsent, ""),
      JsonEntry("number", TRUE, JAbsent, JAbsent, ""),
      JsonEntry("string", FALSE, JAbsent, JAbsent, ""),
      JsonEntry("string", TRUE, JAbsent, JAbsent, ""),
      JsonEntry("array", TRUE, JAbsent, JAbsent, "") }

JsonText(empty, parses, isArray, entries) ==
    [empty |-> empty, parses |-> parses, isArray |-> isArray, entries |-> entries]
JsonEmpty == JsonText(TRUE, FALSE, FALSE, <<>>)
JsonMalformed == JsonText(FALSE, FALSE, FALSE, <<>>)
JsonNotArray == JsonText(FALSE, TRUE, FALSE, <<>>)
JsonArray(entries) == JsonText(FALSE, TRUE, TRUE, entries)

\* text.trim(), the only white space being the blank
RECURSIVE TrimStart(_)
TrimStart(text) ==
    IF text # <<>> /\ Head(text) = " " THEN TrimStart(Tail(text)) ELSE text

RECURSIVE TrimEnd(_)
TrimEnd(text) ==
    IF text # <<>> /\ text[Len(text)] = " "
    THEN TrimEnd(SubSeq(text, 1, Len(text) - 1))
    ELSE text

TrimText(text) == TrimEnd(TrimStart(text))

\* text.indexOf(ch), counted from 0; -1 if ch is not in text
RECURSIVE IndexOf(_, _)
IndexOf(text, ch) ==
    IF text = <<>> THEN -1
    ELSE IF Head(text) = ch THEN 0
    ELSE LET rest == IndexOf(Tail(text), ch) IN
         IF rest = -1 THEN -1 ELSE rest + 1

\* text.split(sep): the parts between the separators, empty ones included
RECURSIVE Split(_, _)
Split(text, sep) ==
    LET at == IndexOf(text, sep) IN
    IF at = -1 THEN <<text>>
    ELSE <<SubSeq(text, 1, at)>> \o Split(SubSeq(text, at + 2, Len(text)), sep)

\* text.slice(from, to), both counted from 0
Slice(text, from, to) == SubSeq(text, from + 1, to)

HeaderCookie(name, value) ==
    [name |-> name, value |-> value, domain |-> ".youtube.com", path |-> "/",
     secure |-> TRUE]

\* the cookie of one trimmed, non-empty part of the header, or Null
CookieOfPart(part) ==
    LET eq == IndexOf(part, "=") IN
    IF eq <= 0 THEN Null
    ELSE LET name == TrimText(Slice(part, 0, eq))
             value == TrimText(Slice(part, eq + 1, Len(part)))
         IN IF name = <<>> \/ value = <<>> THEN Null
            ELSE Some(HeaderCookie(name, value))

RECURSIVE CookiesOfParts(_)
CookiesOfParts(parts) ==
    IF parts = <<>> THEN <<>>
    ELSE LET part == TrimText(Head(parts)) IN
         (IF part = <<>> \/ IsNull(CookieOfPart(part)) THEN <<>>
          ELSE <<Val(CookieOfPart(part))>>)
         \o CookiesOfParts(Tail(parts))

\* parseCookieHeader: the cookies of the name=value parts
parseCookieHeader(rawCookieHeader) == CookiesOfParts(Split(rawCookieHeader, ";"))

\* the AppError of a rejected YTDL_COOKIES_JSON, its message in words
InvalidCookiesJson(message) ==
    [app |-> TRUE, status |-> 500, code |-> "INVALID_YTDL_COOKIES_JSON",
     message |-> message, detail |-> 0]
InvalidJsonMessage ==
    <<"Invalid", "YTDL_COOKIES_JSON.", "Expected", "a", "JSON", "array",
      "exported", "from", "EditThisCookie.">>
NoValidCookiesMessage ==
    <<"YTDL_COOKIES_JSON", "is", "set", "but", "contains", "no", "valid",
      "cookies.">>

\* the entry is an object whose name and value are non-empty strings
IsCookieEntry(entry) ==
    /\ entry.truthy /\ entry.type \in {"object", "array"}
    /\ entry.name.type = "string" /\ entry.name.text # <<>>
    /\ entry.value.type = "string" /\ entry.value.text # <<>>

Parsed(thrown, cookies, headerRead) ==
    [thrown |-> thrown, cookies |-> cookies, headerRead |-> headerRead]

\* a parser that turns to the header when the JSON has no usable entry
parseConfiguredYtdlCookies_HeaderWhenNone(cfg) ==
    IF ~IsNull(cfg.json) /\ ~Val(cfg.json).empty
       /\ ~(Val(cfg.json).parses /\ Val(cfg.json).isArray
            /\ SelectSeq(Val(cfg.json).entries, IsCookieEntry) = <<>>)
    THEN LET json == Val(cfg.json)
             cookies == SelectSeq(json.entries, IsCookieEntry)
         IN IF ~json.parses \/ ~json.isArray
            THEN Parsed(Some(InvalidCookiesJson(InvalidJsonMessage)),
                        <<>>, FALSE)
            ELSE Parsed(Null, cookies, FALSE)
    ELSE IF ~IsNull(cfg.header) /\ Val(cfg.header) # <<>>
    THEN Parsed(Null, parseCookieHeader(Val(cfg.header)), TRUE)
    ELSE Parsed(Null, <<>>, FALSE)

\* parseConfiguredYtdlCookies: the error thrown or the cookies returned, and
\* whether parseCookieHeader was called on the header
parseConfiguredYtdlCookies(cfg) ==
    IF ~IsNull(cfg.json) /\ ~Val(cfg.json).empty
    THEN LET json == Val(cfg.json)
             cookies == SelectSeq(json.entries, IsCookieEntry)
         IN IF ~json.parses \/ ~json.isArray
            THEN Parsed(Some(InvalidCookiesJson(InvalidJsonMessage)),
                        <<>>, FALSE)
            ELSE IF Len(cookies) = 0
            THEN Parsed(Some(InvalidCookiesJson(NoValidCookiesMessage)),
                        <<>>, FALSE)
            ELSE Parsed(Null, cookies, FALSE)
    ELSE IF ~IsNull(cfg.header) /\ Val(cfg.header) # <<>>
    THEN Parsed(Null, parseCookieHeader(Val(cfg.header)), TRUE)
    ELSE Parsed(Null, <<>>, FALSE)

\* the configurations an agent is built from: every outcome of the JSON text
\* with every kind of header
YoutubeEntry == JsonObject(JString(<<"a">>), JString(<<"b">>), ".youtube.com")
ForeignEntry == JsonObject(JString(<<"a">>), JString(<<"b">>), ".example.com")
CookieConfigs ==
    { CookieConfig(j, h) :
        j \in {Null, Some(JsonMalformed), Some(JsonNotArray),
               Some(JsonArray(<<JsonObject(JAbsent, JString(<<"b">>), ".youtube.com")>>)),
               Some(JsonArray(<<YoutubeEntry>>)),
               Some(JsonArray(<<ForeignEntry>>))},
        h \in {Null, Some(<<"a">>), Some(<<"a", "=", "b", ";", "b", "=", "a">>)} }

\* this.agent: undefined, null, or the agent made of the cookies
Undefined == [state |-> "undefined", jar |-> <<>>]
NullAgent == [state |-> "null", jar |-> <<>>]
Agent(cookies) == [state |-> "agent", jar |-> cookies]

\* ytdl.createAgent(cookies): the cookies are put in a jar for
\* https://www.youtube.com, which throws on a cookie of another domain
createAgent(cookies) ==
    IF \E i \in 1..Len(cookies) : cookies[i].domain # ".youtube.com"
    THEN [thrown |-> Some([app |-> FALSE, status |-> 0, code |-> "",
                           message |-> <<"Cookie", "not", "in", "this",
                                         "host's", "domain">>,
                           detail |-> 0]),
          agent |-> Undefined]
    ELSE [thrown |-> Null, agent |-> Agent(cookies)]

\* getAgent past its memo test: the configuration is parsed and the agent
\* made; this.agent is assigned only if neither throws.  The outcome tells
\* the value of this.agent afterwards, the error thrown, whether the
\* configuration was parsed and whether the factory was called.
BuildAgent(cfg) ==
    LET parsed == parseConfiguredYtdlCookies(cfg) IN
    IF ~IsNull(parsed.thrown)
    THEN [agent |-> Undefined, thrown |-> parsed.thrown,
          parsed |-> TRUE, factory |-> FALSE]
    ELSE IF Len(parsed.cookies) > 0
    THEN LET made == createAgent(parsed.cookies) IN
         [agent |-> made.agent, thrown |-> made.thrown,
          parsed |-> TRUE, factory |-> TRUE]
    ELSE [agent |-> NullAgent, thrown |-> Null, parsed |-> TRUE, factory |-> FALSE]

\* an agent built anew by every call
getAgent_NoMemo(current, cfg) == BuildAgent(cfg)

\* getAgent
getAgent(current, cfg) ==
    IF current # Undefined
    THEN [agent |-> current, thrown |-> Null, parsed |-> FALSE, factory |-> FALSE]
    ELSE BuildAgent(cfg)

\* What getAgent has done: how often the configuration was parsed and the
\* factory called, how often this.agent was assigned, and how often the
\* configuration was parsed or the factory called after an assignment
NoLog == [parses |-> 0, factoryCalls |-> 0, builds |-> 0, late |-> 0]

NoteGetAgent(log, current, got) ==
    [parses |-> log.parses + (IF got.parsed THEN 1 ELSE 0),
     factoryCalls |-> log.factoryCalls + (IF got.factory THEN 1 ELSE 0),
     builds |-> log.builds
                + (IF got.parsed /\ got.agent # Undefined THEN 1 ELSE 0),
     late |-> log.late
              + (IF log.builds > 0 /\ (got.parsed \/ got.factory) THEN 1 ELSE 0)]

-----------------------------------------------------------------------------
(* Resolution Cache *)

EmptyCache == [v \in VideoIds |-> Null]

\* a lookup that still serves an entry at the instant of its expiry
getCachedResolution_StrictAfter(cache, videoId, clock) ==
    LET entry == cache[videoId] IN
    IF IsNull(entry) THEN [value |-> Null, cache |-> cache]
    ELSE IF clock > Val(entry).expiresAtMs
         THEN [value |-> Null, cache |-> [cache EXCEPT ![videoId] = Null]]
         ELSE [value |-> Some(Val(entry).value), cache |-> cache]

\* getCachedResolution: the value returned and the map afterwards
getCachedResolution(cache, videoId, clock) ==
    LET entry == cache[videoId] IN
    IF IsNull(entry) THEN [value |-> Null, cache |-> cache]
    ELSE IF clock >= Val(entry).expiresAtMs
         THEN [value |-> Null, cache |-> [cache EXCEPT ![videoId] = Null]]
         ELSE [value |-> Some(Val(entry).value), cache |-> cache]

\* setCachedResolution without the 5-second floor
EntryExpiresAtMs_NoFloor(resolution, clock) ==
    LET parsedExpiry == IF IsNull(resolution.expiresAt) THEN NaN
                        ELSE DateParse(Val(resolution.expiresAt))
        rawExpiryMs == IF IsFinite(parsedExpiry) THEN parsedExpiry
                       ELSE clock + fallbackTtlMs
    IN rawExpiryMs - ExpiryMarginMs

\* setCachedResolution without the 30-second margin
EntryExpiresAtMs_NoMargin(resolution, clock) ==
    LET parsedExpiry == IF IsNull(resolution.expiresAt) THEN NaN
                        ELSE DateParse(Val(resolution.expiresAt))
        rawExpiryMs == IF IsFinite(parsedExpiry) THEN parsedExpiry
                       ELSE clock + fallbackTtlMs
    IN Max(clock + SafetyWindowMs, rawExpiryMs)

\* setCachedResolution with the margin taken from a parsed expiry only
EntryExpiresAtMs_FallbackWhole(resolution, clock) ==
    LET parsedExpiry == IF IsNull(resolution.expiresAt) THEN NaN
                        ELSE DateParse(Val(resolution.expiresAt))
    IN IF IsFinite(parsedExpiry)
       THEN Max(clock + SafetyWindowMs, parsedExpiry - ExpiryMarginMs)
       ELSE clock + fallbackTtlMs

\* the expiry that setCachedResolution gives an entry put at `clock`
EntryExpiresAtMs(resolution, clock) ==
    LET parsedExpiry == IF IsNull(resolution.expiresAt) THEN NaN
                        ELSE DateParse(Val(resolution.expiresAt))
        rawExpiryMs == IF IsFinite(parsedExpiry) THEN parsedExpiry
                       ELSE clock + fallbackTtlMs
    IN Max(clock + SafetyWindowMs, rawExpiryMs - ExpiryMarginMs)

\* a put that leaves an entry already stored for the trackId in place
setCachedResolution_KeepFirst(cache, resolution, clock) ==
    IF ~IsNull(cache[resolution.videoId]) THEN cache
    ELSE [cache EXCEPT ![resolution.videoId] =
            Some([value |-> resolution,
                  expiresAtMs |-> EntryExpiresAtMs(resolution, clock)])]

\* a store that keeps every resolution under one and the same key
setCachedResolution_OneKey(cache, resolution, clock) ==
    [cache EXCEPT !["v1"] =
        Some([value |-> resolution,
              expiresAtMs |-> EntryExpiresAtMs(resolution, clock)])]

setCachedResolution(cache, resolution, clock) ==
    [cache EXCEPT ![resolution.videoId] =
        Some([value |-> resolution,
              expiresAtMs |-> EntryExpiresAtMs(resolution, clock)])]

\* an invalidation that empties the whole map
clearCachedResolution_All(cache, videoId) == EmptyCache

clearCachedResolution(cache, videoId) == [cache EXCEPT ![videoId] = Null]

\* a patch that keeps the expiry of the old URL
updateCachedResolutionDirectUrl_KeepsExpiry(cache, videoId, directUrl, clock) ==
    LET got == getCachedResolution(cache, videoId, clock) IN
    IF IsNull(got.value) THEN got.cache
    ELSE setCachedResolution(
            got.cache, [Val(got.value) EXCEPT !.directUrl = directUrl], clock)

\* a patch that stores nothing
updateCachedResolutionDirectUrl_NoOp(cache, videoId, directUrl, clock) ==
    getCachedResolution(cache, videoId, clock).cache

updateCachedResolutionDirectUrl(cache, videoId, directUrl, clock) ==
    LET got == getCachedResolution(cache, videoId, clock) IN
    IF IsNull(got.value) THEN got.cache
    ELSE setCachedResolution(
            got.cache,
            [Val(got.value) EXCEPT !.directUrl = directUrl,
                                   !.expiresAt = parseExpiryFromUrl(Some(directUrl))],
            clock)

-----------------------------------------------------------------------------
(* Byte ranges: proxy, the Range header against the known total length      *)
(* A Range header is Null (absent) or Some([empty, match, rawStart,          *)
(* rawEnd]): whether the text is the empty string, whether the trimmed text *)
(* matches the pattern "bytes=", digits, "-", digits (case-insensitive),    *)
(* and the two captured digit strings, each a sequence of digits (possibly  *)
(* empty).                                                                  *)

\* a digit string of 309 or more digits without leading zeros, whose Number
\* is Infinity
LongDigits == <<Infinity>>

RECURSIVE DecimalValue(_)
DecimalValue(digits) ==
    IF digits = <<>> THEN 0
    ELSE DecimalValue(SubSeq(digits, 1, Len(digits) - 1)) * 10
         + digits[Len(digits)]

\* Number(raw) for a captured, non-empty digit string
NumberOfDigits(raw) ==
    IF raw = LongDigits THEN Infinity ELSE DecimalValue(raw)

RangeHeader(rawStart, rawEnd) ==
    Some([empty |-> FALSE, match |-> TRUE, rawStart |-> rawStart, rawEnd |-> rawEnd])
NoMatchHeader ==
    Some([empty |-> FALSE, match |-> FALSE, rawStart |-> <<>>, rawEnd |-> <<>>])
\* "Range:" with no value: req.headers.range is the empty string
EmptyHeader ==
    Some([empty |-> TRUE, match |-> FALSE, rawStart |-> <<>>, rawEnd |-> <<>>])

\* the truthiness of rangeHeader: a string that is not empty
HeaderGiven(rangeHeader) == ~IsNull(rangeHeader) /\ ~Val(rangeHeader).empty

\* Content-Range values: bytes [star]/T, bytes s-e/T, or the upstream's text
UnsatisfiedRange(total) ==
    [kind |-> "unsatisfied", start |-> 0, end |-> 0, total |-> total]
SatisfiedRange(start, end, total) ==
    [kind |-> "range", start |-> start, end |-> end, total |-> total]

\* a total length that is unknown only when the format has none
TotalLengthOf_AnyNumber(selected) ==
    LET cl == selected.contentLength IN
    IF IsNull(cl) \/ Val(cl) = NaN THEN Null ELSE cl

\* selected.contentLength && Number.isFinite(selected.contentLength)
TotalLengthOf(selected) ==
    LET cl == selected.contentLength IN
    IF IsNull(cl) \/ Val(cl) = 0 \/ Val(cl) = NaN \/ ~IsFinite(Val(cl))
    THEN Null ELSE cl

RangeFailure(code, total) ==
    [error |-> Some(code), byteRange |-> Null, status |-> Null,
     contentRange |-> Some(UnsatisfiedRange(total)), contentLength |-> Null]

\* the end of the range left unclamped
RangeFinish_NoClamp(start, end, total) ==
    IF ~IsFinite(end) \/ end < start \/ start >= total
    THEN RangeFailure("RANGE_NOT_SATISFIABLE", total)
    ELSE [error |-> Null,
          byteRange |-> Some([start |-> start, end |-> end]),
          status |-> Some(206),
          contentRange |-> Some(SatisfiedRange(start, end, total)),
          contentLength |-> Some(end - start + 1)]

\* the end of a range once start is known (the checks after the two branches)
RangeFinish(start, end, total) ==
    IF ~IsFinite(end) \/ end < start \/ start >= total
    THEN RangeFailure("RANGE_NOT_SATISFIABLE", total)
    ELSE LET clamped == Min(end, total - 1) IN
         [error |-> Null,
          byteRange |-> Some([start |-> start, end |-> clamped]),
          status |-> Some(206),
          contentRange |-> Some(SatisfiedRange(start, clamped, total)),
          contentLength |-> Some(clamped - start + 1)]

\* what proxy decides from the Range header and the total length: the error
\* thrown (if any), the byte range, and the status and headers it sets
ComputeRange(rangeHeader, totalLength) ==
    IF HeaderGiven(rangeHeader) /\ ~IsNull(totalLength) THEN
      LET h == Val(rangeHeader)
          total == Val(totalLength)
      IN
      IF ~h.match THEN RangeFailure("INVALID_RANGE_HEADER", total)
      ELSE IF h.rawStart = <<>> /\ h.rawEnd = <<>>
           THEN RangeFailure("INVALID_RANGE_HEADER", total)
      ELSE
        LET start == IF h.rawStart # <<>> THEN NumberOfDigits(h.rawStart) ELSE NaN
            end == IF h.rawEnd # <<>> THEN NumberOfDigits(h.rawEnd) ELSE NaN
        IN
        IF h.rawStart = <<>> /\ h.rawEnd # <<>> THEN
          LET suffixLength == NumberOfDigits(h.rawEnd) IN
          IF ~IsFinite(suffixLength) \/ suffixLength <= 0
          THEN RangeFailure("INVALID_RANGE_HEADER", total)
          ELSE RangeFinish(Max(total - suffixLength, 0), total - 1, total)
        ELSE
          IF ~IsFinite(start) \/ start < 0
          THEN RangeFailure("INVALID_RANGE_HEADER", total)
          ELSE RangeFinish(start,
                           IF h.rawEnd = <<>> THEN total - 1 ELSE end,
                           total)
    ELSE IF ~IsNull(totalLength) THEN
      [error |-> Null, byteRange |-> Null, status |-> Null,
       contentRange |-> Null, contentLength |-> totalLength]
    ELSE
      [error |-> Null, byteRange |-> Null, status |-> Null,
       contentRange |-> Null, contentLength |-> Null]

\* the Range value sent upstream: the computed range, else the header as is
\* (an empty header is not sent)
UpstreamRangeOf(byteRange, rangeHeader) ==
    IF ~IsNull(byteRange)
    THEN Some([computed |-> TRUE, start |-> Val(byteRange).start,
               end |-> Val(byteRange).end, header |-> Null])
    ELSE IF HeaderGiven(rangeHeader)
         THEN Some([computed |-> FALSE, start |-> 0, end |-> 0,
                    header |-> rangeHeader])
         ELSE Null

-----------------------------------------------------------------------------
(* What the collaborators can answer *)

Format(itag, url, essence, container, bitrate, contentLength, hasVideo) ==
    [itag |-> Some(itag), url |-> url,
     mimeType |-> Some([essence |-> essence, params |-> "codecs"]),
     container |-> Some(container), codecs |-> Some("codec"),
     audioBitrate |-> bitrate, contentLength |-> contentLength,
     hasAudio |-> TRUE, hasVideo |-> hasVideo]

UrlFar == Url("far", Expire("num", (T0 \div 1000) + 50))
UrlNear == Url("near", Expire("num", (T0 \div 1000) + 10))
UrlPast == Url("past", Expire("num", (T0 \div 1000) - 50))
UrlPlain == Url("plain", Expire("absent", 0))
UrlCli == Url("cli", Expire("num", (T0 \div 1000) + 50))

FmtM4a(url) == Format(140, url, "audio/mp4", "mp4", Some(128), Some(4), FALSE)
FmtWebm(url) == Format(251, url, "audio/webm", "webm", Some(160), Null, FALSE)
FmtVideo == Format(18, Some(UrlPlain), "video/mp4", "mp4", Some(96), Some(4), TRUE)

Info(formats) ==
    [formats |-> formats, title |-> "title", author |-> Some("author"),
     lengthSeconds |-> 200]

\* the answers of ytdl.getInfo
InfoChoices ==
    { Info(<<FmtWebm(Some(UrlPlain)), FmtM4a(Some(UrlFar))>>),
      Info(<<FmtM4a(Some(UrlNear))>>),
      Info(<<FmtWebm(Some(UrlPast))>>),
      Info(<<FmtVideo>>),
      Info(<<FmtWebm(Some(UrlPlain)), FmtM4a(Null)>>) }

\* the errors ytdl.getInfo can throw (Error objects, none an AppError); the
\* message of such an error is the sequence of its words
LibraryError(message) ==
    [app |-> FALSE, status |-> 0, code |-> "", message |-> message, detail |-> 0]
InfoErrors ==
    { LibraryError(<<"Sign", "in", "to", "confirm", "you're", "not", "a", "bot">>),
      LibraryError(<<"SIGN", "IN", "TO", "CONFIRM", "your", "age">>),
      LibraryError(<<"confirm", "you", "are", "not", "a", "robot">>),
      LibraryError(<<"Video", "unavailable">>) }

\* an AppError; its message, whose words none of the patterns meets, is
\* kept as one word
AppError(status, message, code, detail) ==
    [app |-> TRUE, status |-> status, code |-> code, message |-> <<message>>,
     detail |-> detail]

\* pattern.test(text): the words of the pattern occur in a row in the text
Includes(text, pattern) ==
    \E i \in 0..(Len(text) - Len(pattern)) :
      SubSeq(text, i + 1, i + Len(pattern)) = pattern

Lowered(text) == [i \in 1..Len(text) |-> ToLower(text[i])]

\* a test that forgets the i flag of the patterns
looksLikeYouTubeBotCheck_CaseSensitive(error) ==
    \/ Includes(error.message, <<"sign", "in", "to", "confirm">>)
    \/ Includes(error.message, <<"not", "a", "bot">>)

\* the two patterns, tested case-insensitively against the message
looksLikeYouTubeBotCheck(error) ==
    \/ Includes(Lowered(error.message), <<"sign", "in", "to", "confirm">>)
    \/ Includes(Lowered(error.message), <<"not", "a", "bot">>)

\* the answers of fetch(directUrl): a response, or Null when fetch throws
Response(status, hasBody, contentType, contentLength, contentRange, acceptRanges) ==
    [status |-> status, hasBody |-> hasBody, contentType |-> contentType,
     contentLength |-> contentLength, contentRange |-> contentRange,
     acceptRanges |-> acceptRanges]
BareResponse(status, hasBody) == Response(status, hasBody, Null, Null, Null, Null)
FullResponse(status) ==
    Response(status, TRUE, Some("audio/webm"), Some(9),
             Some([kind |-> "upstream", start |-> 0, end |-> 8, total |-> 9]),
             Some("none"))
FetchAnswers ==
    { Some(BareResponse(200, TRUE)), Some(BareResponse(200, FALSE)),
      Some(FullResponse(206)), Some(BareResponse(403, TRUE)),
      Some(BareResponse(404, TRUE)), Null }

\* A line of the yt-dlp output as split at the line ends: white space before
\* and after (a stray carriage return counts), how the text begins, and the
\* rest of the text, read as a URL when the line is taken.
StdoutLine(lead, scheme, rest, trail) ==
    [lead |-> lead, scheme |-> scheme, rest |-> rest, trail |-> trail]

\* the outcomes of the yt-dlp process: how execFile failed if it did ("exit"
\* a non-zero exit, "spawn" no such program, "timeout" killed after 20 s,
\* "maxBuffer" output over 1 MB) and the stdout lines
CliOutcome(failure, stdout) == [failure |-> failure, stdout |-> stdout]
CliFailures == {"exit", "spawn", "timeout", "maxBuffer"}
CliOutcomes ==
    { CliOutcome("exit", <<>>),
      CliOutcome("none", <<>>),
      CliOutcome("none", <<StdoutLine(FALSE, "", UrlPlain, FALSE),
                           StdoutLine(FALSE, "https://", UrlCli, FALSE)>>) }

\* the Range headers of the requests
RangeHeaders ==
    { Null, RangeHeader(<<1>>, <<2>>), RangeHeader(<<9>>, <<>>) }

\* the instants at which the clock is read
Instants ==
    { T0, T0 + SafetyWindowMs - 1, T0 + SafetyWindowMs,
      T0 + 50000 - ExpiryMarginMs,
      T0 + fallbackTtlMs - ExpiryMarginMs - 1, T0 + fallbackTtlMs - ExpiryMarginMs }

-----------------------------------------------------------------------------
(* SearchViewModel (iOS)                                                     *)
(* The view model runs on the main actor: a call of searchNow or             *)
(* loadNextPage (a task) runs without interruption up to its await of the    *)
(* API client and again from the answer to its end.  A song of results is    *)
(* kept with the query key of the request that returned it.                  *)

MaxTasks == 3
MaxSongs == 2

Tasks == 1..MaxTasks
NoTask == [state |-> "none", kind |-> "", key |-> <<>>, cancelled |-> FALSE]
Awaiting(kind, key) ==
    [state |-> "awaiting", kind |-> kind, key |-> key, cancelled |-> FALSE]

\* SearchViewModel(apiClient:)
NoSearch ==
    [query |-> <<>>, results |-> <<>>, isLoading |-> FALSE, isLoadingMore |-> FALSE,
     errorMessage |-> FALSE, loadMoreErrorMessage |-> FALSE,
     nextPagePath |-> Null, currentQueryKey |-> <<>>,
     tasks |-> [t \in Tasks |-> NoTask],
     \* whether an answer was ever applied that had been asked for another
     \* key than the current one, and whether a page ever added an id that
     \* results had already
     staleApplied |-> FALSE, duplicateAdded |-> FALSE]

Song(id, key) == [id |-> id, for |-> key]
SongsOf(ids, key) == [i \in 1..Len(ids) |-> Song(ids[i], key)]
IdsOf(songs) == { songs[i].id : i \in 1..Len(songs) }

\* searchNow up to its await
searchNowBegin(vm, t) ==
    LET trimmed == TrimText(vm.query) IN
    IF trimmed = <<>>
    THEN [vm EXCEPT !.results = <<>>, !.errorMessage = FALSE, !.isLoading = FALSE,
                    !.isLoadingMore = FALSE, !.nextPagePath = Null,
                    !.loadMoreErrorMessage = FALSE, !.currentQueryKey = <<>>,
                    !.tasks[t].state = "done"]
    ELSE [vm EXCEPT !.currentQueryKey = Lowered(trimmed), !.isLoading = TRUE,
                    !.isLoadingMore = FALSE, !.errorMessage = FALSE,
                    !.loadMoreErrorMessage = FALSE, !.nextPagePath = Null,
                    !.tasks[t] = Awaiting("search", Lowered(trimmed))]

\* a searchNow that applies the answer whatever the current key
searchNowReturns_NoKeyCheck(vm, t, answer) ==
    LET task == vm.tasks[t]
        ended == [vm EXCEPT !.tasks[t].state = "done"]
    IN IF task.cancelled THEN ended
       ELSE IF ~answer.failed
       THEN [ended EXCEPT !.results = SongsOf(answer.songs, task.key),
                          !.nextPagePath = answer.nextPagePath,
                          !.isLoading = FALSE,
                          !.staleApplied = @ \/ task.key # vm.currentQueryKey]
       ELSE [ended EXCEPT !.results = <<>>, !.isLoading = FALSE,
                          !.errorMessage = TRUE,
                          !.staleApplied = @ \/ task.key # vm.currentQueryKey]

\* searchNow from the answer of searchSongsBatch (or its error) to its end
searchNowReturns(vm, t, answer) ==
    LET task == vm.tasks[t]
        ended == [vm EXCEPT !.tasks[t].state = "done"]
    IN IF task.cancelled THEN ended
       ELSE IF task.key # vm.currentQueryKey THEN ended
       ELSE IF ~answer.failed
       THEN [ended EXCEPT !.results = SongsOf(answer.songs, task.key),
                          !.nextPagePath = answer.nextPagePath,
                          !.isLoading = FALSE,
                          !.staleApplied = @ \/ task.key # vm.currentQueryKey]
       ELSE [ended EXCEPT !.results = <<>>, !.isLoading = FALSE,
                          !.errorMessage = TRUE,
                          !.staleApplied = @ \/ task.key # vm.currentQueryKey]

\* the guards of loadNextPage
CanLoadNextPage(vm) ==
    ~vm.isLoading /\ ~vm.isLoadingMore /\ ~IsNull(vm.nextPagePath)

\* loadNextPage past its guards, up to its await
loadNextPageBegin(vm, t) ==
    [vm EXCEPT !.isLoadingMore = TRUE, !.loadMoreErrorMessage = FALSE,
               !.tasks[t] = Awaiting("page", vm.currentQueryKey)]

\* a loadNextPage that appends the whole page
loadNextPageReturns_NoFilter(vm, t, answer) ==
    LET task == vm.tasks[t]
        ended == [vm EXCEPT !.tasks[t].state = "done"]
    IN IF task.cancelled THEN ended
       ELSE IF task.key # vm.currentQueryKey THEN ended
       ELSE IF ~answer.failed
       THEN LET newSongs == SongsOf(answer.songs, task.key)
            IN [ended EXCEPT !.results = @ \o newSongs,
                             !.nextPagePath = answer.nextPagePath,
                             !.isLoadingMore = FALSE,
                             !.staleApplied = @ \/ task.key # vm.currentQueryKey,
                             !.duplicateAdded =
                                @ \/ IdsOf(newSongs) \cap IdsOf(vm.results) # {}]
       ELSE [ended EXCEPT !.loadMoreErrorMessage = TRUE, !.isLoadingMore = FALSE]

\* loadNextPage from the answer of fetchDriveMusicSongsPageBatch (or its
\* error) to its end
loadNextPageReturns(vm, t, answer) ==
    LET task == vm.tasks[t]
        ended == [vm EXCEPT !.tasks[t].state = "done"]
    IN IF task.cancelled THEN ended
       ELSE IF task.key # vm.currentQueryKey THEN ended
       ELSE IF ~answer.failed
       THEN LET existingIDs == IdsOf(vm.results)
                newSongs == SelectSeq(SongsOf(answer.songs, task.key),
                                      LAMBDA song : song.id \notin existingIDs)
            IN [ended EXCEPT !.results = @ \o newSongs,
                             !.nextPagePath = answer.nextPagePath,
                             !.isLoadingMore = FALSE,
                             !.staleApplied = @ \/ task.key # vm.currentQueryKey,
                             !.duplicateAdded =
                                @ \/ IdsOf(newSongs) \cap IdsOf(vm.results) # {}]
       ELSE [ended EXCEPT !.loadMoreErrorMessage = TRUE, !.isLoadingMore = FALSE]

-----------------------------------------------------------------------------
(* A request: one call of resolve or proxy *)

EmptyResponse ==
    [statusCode |-> 200, contentType |-> Null, contentRange |-> Null,
     contentLength |-> Null, acceptRanges |-> Null, cacheControl |-> Null,
     proxySource |-> Null, piping |-> FALSE,
     \* res.headersSent, the JSON body written by the stream error handler,
     \* and whether res.destroy was called
     headersSent |-> FALSE, envelope |-> Null, destroyed |-> FALSE,
     \* the client has gone away, and the response has emitted 'close'
     clientGone |-> FALSE, closed |-> FALSE]

IdleReq ==
    [pc |-> "idle", kind |-> "none", videoId |-> "v1", attempt |-> 0,
     rangeHeader |-> Null, resolved |-> Null, upstreamRange |-> Null,
     fetchUrl |-> Null, upstream |-> Null, upstreamSource |-> "ytdl-core",
     res |-> EmptyResponse, outcome |-> "none", err |-> Null,
     \* bookkeeping of what the call has done
     agentCalls |-> 0, metaCalls |-> 0, fetches |-> 0, invalidations |-> 0, cliCalls |-> 0,
     cacheReads |-> 0, cacheWrites |-> 0, hitAtStart |-> Null,
     fetchLog |-> <<>>,
     \* the cache when resolve was last called, and getInfo's last answer
     cacheAtResolve |-> Null, lastInfo |-> Null,
     \* what the cache returned when the yt-dlp URL was to be stored
     liveAtPatch |-> Null,
     \* what ytdl.getInfo last threw
     lastThrown |-> Null,
     \* res.headersSent as the body stream's error handler found it
     streamError |-> Null,
     \* what the call had done, and the cache, when the client went away
     atDisconnect |-> Null,
     \* the total length of the format proxy first selected
     firstLength |-> Null]

Fail(q, error) == [q EXCEPT !.pc = "done", !.outcome = "error", !.err = Some(error)]

\* getInfo up to its await: ytdl.getInfo is called
CallGetInfo(q) == [q EXCEPT !.pc = "awaitInfo", !.metaCalls = @ + 1]

\* a catch that takes every error of getAgent for the anti-bot challenge
GetAgentRethrown_AlwaysBotCheck(error) ==
    IF error.app \/ looksLikeYouTubeBotCheck(error)
    THEN AppError(503, "YouTube blocked playback resolution", "YOUTUBE_BOT_CHECK", 0)
    ELSE error

\* getInfo's catch for what getAgent throws
GetAgentRethrown(error) ==
    IF looksLikeYouTubeBotCheck(error)
    THEN AppError(503, "YouTube blocked playback resolution", "YOUTUBE_BOT_CHECK", 0)
    ELSE error

\* getInfo from its first line: getAgent, then ytdl.getInfo is awaited
GetInfoBegin(q) ==
    LET q1 == [q EXCEPT !.agentCalls = @ + 1]
        got == getAgent(agent, cookieConfig)
    IN IF ~IsNull(got.thrown)
       THEN Fail(q1, GetAgentRethrown(Val(got.thrown)))
       ELSE CallGetInfo(q1)

\* resolve without its feature-flag check
ResolveBegin_NoFlagCheck(q) == GetInfoBegin(q)

\* resolve up to its await
ResolveBegin(q) ==
    IF ~resolverEnabled
    THEN Fail(q, AppError(501, "Playback resolver is disabled",
                          "PLAYBACK_RESOLVER_DISABLED", 0))
    ELSE GetInfoBegin(q)

\* format.contentLength is Null for an absent or empty text and Some(n) for
\* a text whose Number is n, so Number(format.contentLength) is its value
Describe(format) ==
    [itag |-> format.itag, mimeType |-> format.mimeType,
     container |-> format.container, codecs |-> format.codecs,
     audioBitrateKbps |-> format.audioBitrate,
     contentLength |-> format.contentLength,
     iosPreferred |-> isIosFriendlyAudio(format)]

\* a resolution that lists every audio-only format as a candidate
BuildResolved_AllCandidates(videoId, info, audioOnly) ==
    LET selected == audioOnly[1] IN
    [videoId |-> videoId, title |-> info.title, author |-> info.author,
     durationSec |-> info.lengthSeconds,
     selected |-> Describe(selected),
     directUrl |-> Val(selected.url),
     expiresAt |-> parseExpiryFromUrl(selected.url),
     proxyUrl |-> IF proxyEnabled THEN Some(videoId) ELSE Null,
     candidates |-> [i \in 1..Len(audioOnly) |-> Describe(audioOnly[i])]]

\* the ResolvedPlayback that resolve builds
BuildResolved(videoId, info, audioOnly) ==
    LET selected == audioOnly[1] IN
    [videoId |-> videoId, title |-> info.title, author |-> info.author,
     durationSec |-> info.lengthSeconds,
     selected |-> Describe(selected),
     directUrl |-> Val(selected.url),
     expiresAt |-> parseExpiryFromUrl(selected.url),
     proxyUrl |-> IF proxyEnabled THEN Some(videoId) ELSE Null,
     candidates |-> [i \in 1..Min(MaxCandidates, Len(audioOnly)) |->
                        Describe(audioOnly[i])]]

ResolveFailure(error) == [error |-> Some(error), resolved |-> Null]

\* a selection that skips the formats without a url
ResolveOutcome_FirstWithUrl(videoId, info) ==
    LET audioOnly == sortAudioFormats(filterAudioOnly(info.formats))
        withUrl == SelectSeq(audioOnly, LAMBDA f : ~IsNull(f.url))
    IN
    IF Len(audioOnly) = 0
    THEN ResolveFailure(AppError(404, "No audio formats available for this video",
                                 "NO_AUDIO_FORMATS", 0))
    ELSE IF Len(withUrl) = 0
    THEN ResolveFailure(AppError(502, "Resolved audio format has no direct URL",
                                 "AUDIO_URL_MISSING", 0))
    ELSE [error |-> Null, resolved |-> Some(BuildResolved(videoId, info, withUrl))]

\* resolve after getInfo has answered: the error it throws, or the
\* ResolvedPlayback it stores and returns
ResolveOutcome(videoId, info) ==
    LET audioOnly == sortAudioFormats(filterAudioOnly(info.formats)) IN
    IF Len(audioOnly) = 0
    THEN ResolveFailure(AppError(404, "No audio formats available for this video",
                                 "NO_AUDIO_FORMATS", 0))
    ELSE IF IsNull(audioOnly[1].url)
    THEN ResolveFailure(AppError(502, "Resolved audio format has no direct URL",
                                 "AUDIO_URL_MISSING", 0))
    ELSE [error |-> Null, resolved |-> Some(BuildResolved(videoId, info, audioOnly))]

\* a fetch that never advances the retry state
CallFetch_AlwaysFirst(q, url, attempt) ==
    [q EXCEPT !.pc = "awaitFetch", !.attempt = 1, !.fetches = @ + 1,
              !.fetchUrl = Some(url)]

\* fetchUpstream up to its await
CallFetch(q, url, attempt) ==
    [q EXCEPT !.pc = "awaitFetch", !.attempt = attempt, !.fetches = @ + 1,
              !.fetchUrl = Some(url)]

\* a second fetch whose Range is computed anew from the format now selected
ProxyRefetch_RecomputesRange(q, resolved) ==
    LET rng == ComputeRange(q.rangeHeader, TotalLengthOf(resolved.selected)) IN
    CallFetch([q EXCEPT !.upstreamRange =
                          UpstreamRangeOf(rng.byteRange, q.rangeHeader)],
              resolved.directUrl, 2)

\* proxy after the re-resolution: the fetch of the new URL, by the same
\* fetchUpstream
ProxyRefetch(q, resolved) == CallFetch(q, resolved.directUrl, 2)

\* proxy from the resolution it obtained to its first fetch
ProxyPrepare(q, resolved) ==
    LET selected == resolved.selected
        mime == IF IsNull(selected.mimeType) THEN ""
                ELSE Val(selected.mimeType).essence
        r1 == IF mime # "" THEN [q.res EXCEPT !.contentType = Some(mime)] ELSE q.res
        totalLength == TotalLengthOf(selected)
        rng == ComputeRange(q.rangeHeader, totalLength)
        r2 == [r1 EXCEPT
                 !.statusCode = IF IsNull(rng.status) THEN @ ELSE Val(rng.status),
                 !.contentRange = IF IsNull(rng.contentRange) THEN @ ELSE rng.contentRange,
                 !.contentLength = IF IsNull(rng.contentLength) THEN @ ELSE rng.contentLength]
        q1 == [q EXCEPT !.resolved = Some(resolved),
                        !.firstLength = Some([totalLength |-> totalLength])]
    IN
    IF ~IsNull(rng.error)
    THEN Fail([q1 EXCEPT !.res = r2],
              AppError(416,
                       IF Val(rng.error) = "INVALID_RANGE_HEADER"
                       THEN "Invalid Range header"
                       ELSE "Requested range not satisfiable",
                       Val(rng.error), 0))
    ELSE CallFetch(
           [q1 EXCEPT !.res = [r2 EXCEPT !.acceptRanges = Some("bytes"),
                                         !.cacheControl = Some("no-store")],
                      !.upstreamRange = UpstreamRangeOf(rng.byteRange, q.rangeHeader)],
           resolved.directUrl, 1)

\* a final check that rejects only 403
ProxyFinish_Rejects403Only(q, upstream) ==
    IF upstream.status = 403
    THEN Fail(q, AppError(502, "Status code", "PLAYBACK_PROXY_STREAM_ERROR",
                          upstream.status))
    ELSE [q EXCEPT !.res = [@ EXCEPT !.statusCode = upstream.status,
                                     !.proxySource = Some(q.upstreamSource),
                                     !.piping = TRUE],
                   !.pc = "streaming", !.outcome = "streaming"]

\* proxy from the last upstream response to the pipe
ProxyFinish(q, upstream) ==
    IF upstream.status \notin {200, 206}
    THEN Fail(q, AppError(502, "Status code", "PLAYBACK_PROXY_STREAM_ERROR",
                          upstream.status))
    ELSE
      LET r1 == [q.res EXCEPT
                   !.statusCode = upstream.status,
                   !.proxySource = Some(q.upstreamSource),
                   !.contentType = IF IsNull(upstream.contentType) THEN @
                                   ELSE upstream.contentType,
                   !.contentLength = IF IsNull(upstream.contentLength) THEN @
                                     ELSE upstream.contentLength,
                   !.contentRange = IF IsNull(upstream.contentRange) THEN @
                                    ELSE upstream.contentRange,
                   !.acceptRanges = IF IsNull(upstream.acceptRanges) THEN @
                                    ELSE upstream.acceptRanges]
      IN
      IF ~upstream.hasBody
      THEN Fail([q EXCEPT !.res = r1],
                AppError(502, "Upstream audio stream has no body",
                         "PLAYBACK_PROXY_STREAM_ERROR", 0))
      ELSE [q EXCEPT !.res = [r1 EXCEPT !.piping = TRUE],
                     !.pc = "streaming", !.outcome = "streaming"]

\* line.trim()
Trim(line) == [line EXCEPT !.lead = FALSE, !.trail = FALSE]

\* /^https?:\/\//i.test(line): the pattern is anchored at the start of the text
IsHttpLine(line) ==
    /\ ~line.lead
    /\ ToLower(line.scheme) \in {"http://", "https://"}

\* the first of the trimmed stdout lines that is an http(s) URL, or Null
RECURSIVE FirstHttpLine(_)
FirstHttpLine(lines) ==
    IF lines = <<>> THEN Null
    ELSE IF IsHttpLine(Trim(Head(lines))) THEN Some(Trim(Head(lines)))
    ELSE FirstHttpLine(Tail(lines))

\* the function without its try/catch: a rejection of execFile leaves it
ytDlpUrlOf_NoCatch(outcome) ==
    IF outcome.failure # "none"
    THEN [raised |-> TRUE, url |-> Null]
    ELSE [raised |-> FALSE, url |-> FirstHttpLine(outcome.stdout)]

\* resolveDirectUrlWithYtDlp, from the outcome of the process: whether the
\* call raised, and what it returned
ytDlpUrlOf(outcome) ==
    IF outcome.failure # "none"
    THEN [raised |-> FALSE, url |-> Null]
    ELSE [raised |-> FALSE, url |-> FirstHttpLine(outcome.stdout)]

-----------------------------------------------------------------------------
(* The state machine *)

\* the slots that take requests, and the tracks requested, in each scope
ActiveReqs == IF scope \in {"sequential", "agent"} THEN {1} ELSE Reqs
RequestedIds == IF scope = "sequential" THEN {"v1"} ELSE VideoIds

Init ==
    /\ scope = "sequential"
    /\ resolverEnabled \in BOOLEAN
    /\ proxyEnabled \in BOOLEAN
    /\ now = T0
    /\ resolutionCache = EmptyCache
    /\ req = [r \in Reqs |-> IdleReq]
    /\ callsStarted = 0
    /\ lastPut = [v \in VideoIds |-> Null]
    /\ cookieConfig = NoCookies
    /\ agent = Undefined
    /\ agentLog = NoLog
    /\ ytmusic = NoService
    /\ search = NoSearch
    /\ rangeIn = [header |-> Null, contentLength |-> Null]
    /\ rangeOut = Null
    /\ selectIn = <<>>
    /\ selectOut = Null
    /\ unitIn = Null
    /\ unitOut = Null

\* the effect on this.agent of the getInfo call that request r has made in
\* this step, if it has made one
AgentStep(r) ==
    IF req'[r].agentCalls # req[r].agentCalls
    THEN LET got == getAgent(agent, cookieConfig) IN
         /\ agent' = got.agent
         /\ agentLog' = NoteGetAgent(agentLog, agent, got)
    ELSE UNCHANGED agentVars

NotePut(puts, resolution, clock, by) ==
    [puts EXCEPT ![resolution.videoId] =
        Some([at |-> clock, value |-> resolution, by |-> by])]

\* GET /playback/:videoId/resolve: resolve(videoId) is called
StartResolve(r, v) ==
    /\ r \in ActiveReqs /\ v \in RequestedIds
    /\ req[r].pc = "idle"
    /\ callsStarted < MaxCalls
    /\ callsStarted' = callsStarted + 1
    /\ LET q0 == [IdleReq EXCEPT
                    !.kind = "resolve", !.videoId = v,
                    !.hitAtStart = getCachedResolution(resolutionCache, v, now).value,
                    !.cacheAtResolve = Some(resolutionCache)]
       IN req' = [req EXCEPT ![r] = ResolveBegin(q0)]
    /\ AgentStep(r)
    /\ UNCHANGED <<config, now, resolutionCache, lastPut, pureVars>>

\* a precondition that forgets the proxy flag
ProxyAllowed_ResolverOnly == resolverEnabled

\* proxy's precondition: this.isEnabled() and this.isProxyEnabled()
ProxyAllowed == resolverEnabled /\ proxyEnabled

\* a proxy that resolves without looking at what the cache returned
ProxyObtain_AlwaysResolve(q, got) ==
    ResolveBegin([q EXCEPT !.cacheAtResolve = Some(got.cache)])

\* getCachedResolution(videoId) ?? (await this.resolve(videoId))
ProxyObtain(q, got) ==
    IF ~IsNull(got.value)
    THEN ProxyPrepare(q, Val(got.value))
    ELSE ResolveBegin([q EXCEPT !.cacheAtResolve = Some(got.cache)])

\* GET /playback/:videoId/stream: proxy(videoId, req, res) is called
StartProxy(r, v, rangeHeader) ==
    /\ r \in ActiveReqs /\ v \in RequestedIds
    /\ req[r].pc = "idle"
    /\ callsStarted < MaxCalls
    /\ callsStarted' = callsStarted + 1
    /\ LET q0 == [IdleReq EXCEPT !.kind = "proxy", !.videoId = v,
                                 !.rangeHeader = rangeHeader]
           got == getCachedResolution(resolutionCache, v, now)
           q1 == [q0 EXCEPT !.cacheReads = 1, !.hitAtStart = got.value]
       IN
       IF ~ProxyAllowed
       THEN /\ req' = [req EXCEPT ![r] =
                        Fail(q0, AppError(501, "Playback proxy is disabled",
                                          "PLAYBACK_PROXY_DISABLED", 0))]
            /\ UNCHANGED resolutionCache
       ELSE /\ resolutionCache' = got.cache
            /\ req' = [req EXCEPT ![r] = ProxyObtain(q1, got)]
    /\ AgentStep(r)
    /\ UNCHANGED <<config, now, lastPut, pureVars>>

\* a proxy that turns to yt-dlp when its re-resolution has failed
ResolveThrows_FallsBackToCli(q, error) ==
    IF q.kind = "proxy" /\ q.invalidations > 0
    THEN [q EXCEPT !.pc = "awaitCli", !.cliCalls = @ + 1]
    ELSE Fail(q, error)

\* resolve throws: neither resolve nor proxy catches, the call fails with
\* the error
ResolveThrows(q, error) == Fail(q, error)

\* ytdl.getInfo throws: getInfo's catch, and the error leaves resolve
GetInfoThrows(r, error) ==
    /\ req[r].pc = "awaitInfo"
    /\ req[r].metaCalls <= StepCap
    /\ req' = [req EXCEPT ![r] =
                 ResolveThrows([@ EXCEPT !.lastThrown = Some(error)],
                      IF looksLikeYouTubeBotCheck(error)
                      THEN AppError(503, "YouTube blocked playback resolution",
                                    "YOUTUBE_BOT_CHECK", 0)
                      ELSE error)]
    /\ UNCHANGED <<config, now, resolutionCache,
                   callsStarted, lastPut, agentVars, pureVars>>

\* ytdl.getInfo answers: the rest of resolve, and of proxy up to its next await
GetInfoReturns(r, info) ==
    /\ req[r].pc = "awaitInfo"
    /\ req[r].metaCalls <= StepCap
    /\ LET q == [req[r] EXCEPT !.lastInfo = Some(info)]
           outcome == ResolveOutcome(q.videoId, info)
       IN
       IF ~IsNull(outcome.error)
       THEN /\ req' = [req EXCEPT ![r] = ResolveThrows(q, Val(outcome.error))]
            /\ UNCHANGED <<resolutionCache, lastPut>>
       ELSE
         LET resolved == Val(outcome.resolved)
             q1 == [q EXCEPT !.cacheWrites = @ + 1, !.resolved = Some(resolved)]
         IN
         /\ resolutionCache' = setCachedResolution(resolutionCache, resolved, now)
         /\ lastPut' = NotePut(lastPut, resolved, now, r)
         /\ req' = [req EXCEPT ![r] =
                      IF q.kind = "resolve"
                      THEN [q1 EXCEPT !.pc = "done", !.outcome = "ok"]
                      ELSE IF q.attempt = 0
                      THEN ProxyPrepare(q1, resolved)
                      ELSE ProxyRefetch(q1, resolved)]
    /\ UNCHANGED <<config, now, callsStarted, agentVars, pureVars>>

\* a retry that fetches the same URL again without resolving
RetryAfterForbidden_NoResolve(q) ==
    CallFetch([q EXCEPT !.invalidations = @ + 1], Val(q.fetchUrl), 2)

\* a retry that fetches again as if it were the first fetch, without resolving
RetryAfterForbidden_Loop(q) ==
    CallFetch([q EXCEPT !.invalidations = @ + 1], Val(q.fetchUrl), 1)

\* proxy after the first 403, the cache entry cleared: resolve again
RetryAfterForbidden(q) == ResolveBegin([q EXCEPT !.invalidations = @ + 1])

\* a retry on every answer that is not a success
ForbiddenFirst_AnyFailure(q, upstream) ==
    q.attempt = 1 /\ upstream.status \notin {200, 206}

\* upstream.status === 403 after the first fetch
ForbiddenFirst(q, upstream) == q.attempt = 1 /\ upstream.status = 403

\* upstream.status === 403 after the fetch that followed the re-resolution
ForbiddenAgain(q, upstream) == q.attempt = 2 /\ upstream.status = 403

\* fetch answers (or throws, answer = Null): proxy up to its next await
FetchReturns(r, answer) ==
    /\ req[r].pc = "awaitFetch"
    /\ req[r].fetches <= StepCap
    /\ LET q0 == req[r]
           q == [q0 EXCEPT !.upstream = answer,
                           !.fetchLog = Append(@,
                               [url |-> Val(q0.fetchUrl),
                                range |-> q0.upstreamRange,
                                status |-> IF IsNull(answer) THEN 0
                                           ELSE Val(answer).status])]
       IN
       IF IsNull(answer)
       THEN /\ req' = [req EXCEPT ![r] =
                        Fail(q, AppError(502, "Failed to fetch upstream audio stream",
                                         "PLAYBACK_PROXY_STREAM_ERROR", 0))]
            /\ UNCHANGED <<resolutionCache, lastPut>>
       ELSE IF ForbiddenFirst(q, Val(answer))
       THEN /\ resolutionCache' = clearCachedResolution(resolutionCache, q.videoId)
            /\ lastPut' = [lastPut EXCEPT ![q.videoId] = Null]
            /\ req' = [req EXCEPT ![r] =
                        RetryAfterForbidden(
                          [q EXCEPT !.cacheAtResolve = Some(resolutionCache')])]
       ELSE IF ForbiddenAgain(q, Val(answer))
       THEN /\ req' = [req EXCEPT ![r] =
                        [q EXCEPT !.pc = "awaitCli", !.cliCalls = @ + 1]]
            /\ UNCHANGED <<resolutionCache, lastPut>>
       ELSE IF q.attempt = 3 /\ Val(answer).status \in {200, 206}
       THEN LET url == Val(q.fetchUrl)
                live == getCachedResolution(resolutionCache, q.videoId, now).value
            IN
            /\ resolutionCache' =
                 updateCachedResolutionDirectUrl(resolutionCache, q.videoId, url, now)
            /\ lastPut' = IF IsNull(live) THEN lastPut
                          ELSE NotePut(lastPut, Val(resolutionCache'[q.videoId]).value, now, r)
            /\ req' = [req EXCEPT ![r] =
                        ProxyFinish([q EXCEPT !.upstreamSource = "yt-dlp",
                                              !.liveAtPatch = Some([value |-> live])],
                                    Val(answer))]
       ELSE /\ req' = [req EXCEPT ![r] = ProxyFinish(q, Val(answer))]
            /\ UNCHANGED <<resolutionCache, lastPut>>
    /\ AgentStep(r)
    /\ UNCHANGED <<config, now, callsStarted, pureVars>>

\* the yt-dlp process ends: proxy up to its next await
CliReturns(r, outcome) ==
    /\ req[r].pc = "awaitCli"
    /\ req[r].cliCalls <= StepCap
    /\ LET q == req[r]
           got == ytDlpUrlOf(outcome)
           ytDlpUrl == got.url
       IN req' = [req EXCEPT ![r] =
                    IF got.raised
                    THEN Fail(q, LibraryError(<<outcome.failure>>))
                    ELSE IF ~IsNull(ytDlpUrl)
                    THEN CallFetch(q, Val(ytDlpUrl).rest, 3)
                    ELSE ProxyFinish(q, Val(q.upstream))]
    /\ UNCHANGED <<config, now, resolutionCache,
                   callsStarted, lastPut, agentVars, pureVars>>

\* the pipe writes a chunk of the body: the first write sends the headers
StreamChunk(r) ==
    /\ req[r].pc = "streaming"
    /\ ~req[r].res.clientGone
    /\ ~req[r].res.headersSent
    /\ req' = [req EXCEPT ![r] = [@ EXCEPT !.res.headersSent = TRUE]]
    /\ UNCHANGED <<config, now, resolutionCache,
                   callsStarted, lastPut, agentVars, pureVars>>

\* the piped body ends: the response is ended, its headers sent if not yet
StreamEnds(r) ==
    /\ req[r].pc = "streaming"
    /\ ~req[r].res.clientGone
    /\ req' = [req EXCEPT ![r] = [@ EXCEPT !.pc = "done", !.res.headersSent = TRUE]]
    /\ UNCHANGED <<config, now, resolutionCache,
                   callsStarted, lastPut, agentVars, pureVars>>

\* a handler that answers with the JSON envelope whatever was sent
OnStreamError_AlwaysJson(q) ==
    [q EXCEPT !.pc = "done",
              !.streamError = Some([headersSent |-> q.res.headersSent]),
              !.res = [@ EXCEPT !.statusCode = 502,
                                !.contentType = Some("application/json"),
                                !.envelope = Some([status |-> 502,
                                                   code |-> "PLAYBACK_PROXY_STREAM_ERROR"]),
                                !.headersSent = TRUE,
                                !.piping = FALSE]]

\* bodyStream.on("error", ...): the handler
OnStreamError(q) ==
    IF ~q.res.headersSent
    THEN [q EXCEPT !.pc = "done",
                   !.streamError = Some([headersSent |-> FALSE]),
                   !.res = [@ EXCEPT !.statusCode = 502,
                                     !.contentType = Some("application/json"),
                                     !.envelope = Some([status |-> 502,
                                                        code |-> "PLAYBACK_PROXY_STREAM_ERROR"]),
                                     !.headersSent = TRUE,
                                     !.piping = FALSE]]
    ELSE [q EXCEPT !.pc = "done",
                   !.streamError = Some([headersSent |-> TRUE]),
                   !.res = [@ EXCEPT !.destroyed = TRUE, !.piping = FALSE]]

\* the upstream body fails while it is piped
StreamFails(r) ==
    /\ req[r].pc = "streaming"
    /\ ~req[r].res.clientGone
    /\ req' = [req EXCEPT ![r] = OnStreamError(@)]
    /\ UNCHANGED <<config, now, resolutionCache,
                   callsStarted, lastPut, agentVars, pureVars>>

\* the client goes away while the body is piped: the socket is closed and
\* the response is about to emit 'close'
ClientDisconnects(r) ==
    /\ req[r].pc = "streaming"
    /\ ~req[r].res.clientGone
    /\ LET q == req[r] IN
       req' = [req EXCEPT ![r] =
                 [q EXCEPT !.res.clientGone = TRUE,
                           !.atDisconnect =
                              Some([metaCalls |-> q.metaCalls, fetches |-> q.fetches,
                                    invalidations |-> q.invalidations,
                                    cliCalls |-> q.cliCalls,
                                    cacheWrites |-> q.cacheWrites,
                                    cache |-> resolutionCache])]]
    /\ UNCHANGED <<config, now, resolutionCache,
                   callsStarted, lastPut, agentVars, pureVars>>

\* a close listener that fetches the audio again
OnResponseClose_Refetches(q) ==
    [q EXCEPT !.pc = "awaitFetch", !.fetches = @ + 1, !.res.closed = TRUE]

\* bodyStream.pipe(res), the listener that pipe puts on the response's
\* 'close': the body stream is unpiped and paused, so that nothing more is
\* read from upstream; the stream is not destroyed and the fetch not aborted.
\* proxy itself listens to nothing on the request or the response.
OnResponseClose(q) ==
    [q EXCEPT !.pc = "done", !.res.closed = TRUE, !.res.piping = FALSE]

\* the response emits 'close'
ResponseCloses(r) ==
    /\ req[r].pc = "streaming"
    /\ req[r].res.clientGone
    /\ req' = [req EXCEPT ![r] = OnResponseClose(@)]
    /\ UNCHANGED <<config, now, resolutionCache,
                   callsStarted, lastPut, agentVars, pureVars>>

\* the HTTP exchange is over; the slot serves the next request
Finish(r) ==
    /\ req[r].pc = "done"
    /\ req' = [req EXCEPT ![r] = IdleReq]
    /\ UNCHANGED <<config, now, resolutionCache,
                   callsStarted, lastPut, agentVars, pureVars>>

\* time passes (the clock is read by live calls only, so a finished exchange
\* is closed before the clock moves on)
Tick(t) ==
    /\ t > now
    /\ \A r \in Reqs : req[r].pc # "done"
    /\ now' = t
    /\ UNCHANGED <<config, resolutionCache, req,
                   callsStarted, lastPut, agentVars, pureVars>>

Next ==
    \/ \E r \in Reqs, v \in VideoIds : StartResolve(r, v)
    \/ \E r \in Reqs, v \in VideoIds, h \in RangeHeaders : StartProxy(r, v, h)
    \/ \E r \in Reqs, e \in InfoErrors : GetInfoThrows(r, e)
    \/ \E r \in Reqs, i \in InfoChoices : GetInfoReturns(r, i)
    \/ \E r \in Reqs, a \in FetchAnswers : FetchReturns(r, a)
    \/ \E r \in Reqs, o \in CliOutcomes : CliReturns(r, o)
    \/ \E r \in Reqs : StreamChunk(r)
    \/ \E r \in Reqs : StreamEnds(r)
    \/ \E r \in Reqs : StreamFails(r)
    \/ \E r \in Reqs : ClientDisconnects(r)
    \/ \E r \in Reqs : ResponseCloses(r)
    \/ \E r \in Reqs : Finish(r)
    \/ \E t \in Instants : Tick(t)

Spec == Init /\ [][Next]_vars

\* every awaited collaborator call of a request eventually returns or fails
Step(r) ==
    \/ \E e \in InfoErrors : GetInfoThrows(r, e)
    \/ \E i \in InfoChoices : GetInfoReturns(r, i)
    \/ \E a \in FetchAnswers : FetchReturns(r, a)
    \/ \E o \in CliOutcomes : CliReturns(r, o)
    \/ ResponseCloses(r)

LiveSpec == Spec /\ \A r \in Reqs : WF_vars(Step(r))

-----------------------------------------------------------------------------
(* Two requests for the same trackId in flight at once: both slots serve,    *)
(* the calls interleave at their awaits, the collaborators answer from the   *)
(* narrowed sets below, and a body once piped is streamed to its end         *)

ConcInfos ==
    { Info(<<FmtWebm(Some(UrlPlain)), FmtM4a(Some(UrlFar))>>),
      Info(<<FmtM4a(Some(UrlNear))>>),
      Info(<<FmtVideo>>) }

ConcFetchAnswers == { Some(BareResponse(200, TRUE)), Some(BareResponse(403, TRUE)) }

ConcInstants == { T0 + SafetyWindowMs }

ConcInit ==
    /\ scope = "concurrent"
    /\ resolverEnabled = TRUE
    /\ proxyEnabled = TRUE
    /\ now = T0
    /\ resolutionCache = EmptyCache
    /\ req = [r \in Reqs |-> IdleReq]
    /\ callsStarted = 0
    /\ lastPut = [v \in VideoIds |-> Null]
    /\ cookieConfig = NoCookies
    /\ agent = Undefined
    /\ agentLog = NoLog
    /\ ytmusic = NoService
    /\ search = NoSearch
    /\ rangeIn = [header |-> Null, contentLength |-> Null]
    /\ rangeOut = Null
    /\ selectIn = <<>>
    /\ selectOut = Null
    /\ unitIn = Null
    /\ unitOut = Null

ConcNext ==
    \/ \E r \in Reqs : StartResolve(r, "v1")
    \/ \E r \in Reqs : StartProxy(r, "v1", Null)
    \/ \E r \in Reqs : GetInfoThrows(r, LibraryError(<<"Video", "unavailable">>))
    \/ \E r \in Reqs, i \in ConcInfos : GetInfoReturns(r, i)
    \/ \E r \in Reqs, a \in ConcFetchAnswers : FetchReturns(r, a)
    \/ \E r \in Reqs, o \in CliOutcomes : CliReturns(r, o)
    \/ \E r \in Reqs : StreamEnds(r)
    \/ \E r \in Reqs : Finish(r)
    \/ \E t \in ConcInstants : Tick(t)

ConcSpec == ConcInit /\ [][ConcNext]_vars

-----------------------------------------------------------------------------
(* The agent under every cookie configuration: calls made one after the      *)
(* other, the collaborators answering from the narrowed sets of ConcSpec     *)

AgentInit ==
    /\ scope = "agent"
    /\ resolverEnabled = TRUE
    /\ proxyEnabled = TRUE
    /\ now = T0
    /\ resolutionCache = EmptyCache
    /\ req = [r \in Reqs |-> IdleReq]
    /\ callsStarted = 0
    /\ lastPut = [v \in VideoIds |-> Null]
    /\ cookieConfig \in CookieConfigs
    /\ agent = Undefined
    /\ agentLog = NoLog
    /\ ytmusic = NoService
    /\ search = NoSearch
    /\ rangeIn = [header |-> Null, contentLength |-> Null]
    /\ rangeOut = Null
    /\ selectIn = <<>>
    /\ selectOut = Null
    /\ unitIn = Null
    /\ unitOut = Null

AgentNext ==
    \/ \E r \in Reqs, v \in VideoIds : StartResolve(r, v)
    \/ \E r \in Reqs, v \in VideoIds : StartProxy(r, v, Null)
    \/ \E r \in Reqs : GetInfoThrows(r, LibraryError(<<"Video", "unavailable">>))
    \/ \E r \in Reqs, i \in ConcInfos : GetInfoReturns(r, i)
    \/ \E r \in Reqs, a \in ConcFetchAnswers : FetchReturns(r, a)
    \/ \E r \in Reqs, o \in CliOutcomes : CliReturns(r, o)
    \/ \E r \in Reqs : StreamEnds(r)
    \/ \E r \in Reqs : Finish(r)

AgentSpec == AgentInit /\ [][AgentNext]_vars

-----------------------------------------------------------------------------
(* The range computation on its own: one proxy call served from the cache,  *)
(* for every Range header and content length within the bounds              *)

DigitStrings ==
    UNION { [1..n -> 0..MaxDigit] : n \in 0..MaxDigits } \cup { LongDigits }

AllRangeHeaders ==
    { Null, NoMatchHeader, EmptyHeader }
    \cup { RangeHeader(a, b) : a \in DigitStrings, b \in DigitStrings }

\* contentLength of the selected format: absent, "0", not a number, or n
ContentLengths == { Null, Some(0), Some(NaN), Some(Infinity) } \cup { Some(n) : n \in 1..MaxTotal }

ResolvedWithLength(contentLength) ==
    LET formats == <<[FmtM4a(Some(UrlFar)) EXCEPT !.contentLength = contentLength]>>
    IN BuildResolved("v1", Info(formats), formats)

RangeInit ==
    /\ scope = "range"
    /\ resolverEnabled = TRUE
    /\ proxyEnabled = TRUE
    /\ now = T0
    /\ resolutionCache = EmptyCache
    /\ req = [r \in Reqs |-> IdleReq]
    /\ callsStarted = 0
    /\ lastPut = [v \in VideoIds |-> Null]
    /\ cookieConfig = NoCookies
    /\ agent = Undefined
    /\ agentLog = NoLog
    /\ ytmusic = NoService
    /\ search = NoSearch
    /\ rangeIn \in [header : AllRangeHeaders, contentLength : ContentLengths]
    /\ rangeOut = Null
    /\ selectIn = <<>>
    /\ selectOut = Null
    /\ unitIn = Null
    /\ unitOut = Null

\* proxy, from the cached resolution to its first fetch or its 416
RangeApply ==
    /\ rangeOut = Null
    /\ rangeOut' = Some(ProxyPrepare(
                       [IdleReq EXCEPT !.kind = "proxy",
                                       !.rangeHeader = rangeIn.header],
                       ResolvedWithLength(rangeIn.contentLength)))
    /\ UNCHANGED <<config, now, resolutionCache, req, callsStarted, lastPut,
                   agentVars, serviceVars, rangeIn, selectVars, unitVars>>

RangeNext == RangeApply

RangeSpec == RangeInit /\ [][RangeNext]_vars

-----------------------------------------------------------------------------
(* The format selection on its own: sortAudioFormats, and resolve after      *)
(* getInfo has answered, for every answer of up to MaxFormats formats        *)

\* 128 kbps mp4, and webm formats of 256, 1127 and 1128 kbps
SelM4a == Format(140, Some(UrlFar), "audio/mp4", "mp4", Some(128), Some(4), FALSE)
SelWebm256 == Format(251, Some(UrlPlain), "audio/webm", "webm", Some(256), Null, FALSE)
SelWebm256b == Format(250, Some(UrlNear), "audio/webm", "WEBM", Some(256), Null, FALSE)
SelWebm1127 == Format(249, Some(UrlPlain), "audio/webm", "webm", Some(1127), Null, FALSE)
SelWebm1128 == Format(248, Some(UrlPlain), "audio/webm", "webm", Some(1128), Null, FALSE)
\* preferred by its mime type alone, without container, bitrate or url
SelMimeOnly ==
    [Format(139, Null, "AUDIO/MP4", "mp4", Null, Null, FALSE) EXCEPT !.container = Null]
\* without bitrate and url
SelBare == Format(600, Null, "audio/webm", "webm", Null, Null, FALSE)

SelectFormats ==
    { SelM4a, SelWebm256, SelWebm256b, SelWebm1127, SelWebm1128,
      SelMimeOnly, SelBare, FmtVideo }

\* answers with more formats than the candidates kept
LongAnswers ==
    { <<SelWebm256, SelM4a, SelWebm1127, SelWebm256b, SelWebm1128, SelBare>>,
      <<SelWebm256, FmtVideo, SelM4a, SelWebm1127, SelWebm256b, SelWebm1128,
        SelBare>>,
      <<SelBare, SelWebm1128, SelWebm256b, SelMimeOnly, SelWebm1127, SelM4a,
        SelWebm256>>,
      <<SelWebm1128, FmtVideo, SelWebm256, SelWebm1127, SelWebm256b, SelBare>> }

SelectInit ==
    /\ scope = "select"
    /\ resolverEnabled = TRUE
    /\ proxyEnabled \in BOOLEAN
    /\ now = T0
    /\ resolutionCache = EmptyCache
    /\ req = [r \in Reqs |-> IdleReq]
    /\ callsStarted = 0
    /\ lastPut = [v \in VideoIds |-> Null]
    /\ cookieConfig = NoCookies
    /\ agent = Undefined
    /\ agentLog = NoLog
    /\ ytmusic = NoService
    /\ search = NoSearch
    /\ rangeIn = [header |-> Null, contentLength |-> Null]
    /\ rangeOut = Null
    /\ selectIn \in UNION { [1..n -> SelectFormats] : n \in 0..MaxFormats }
                   \cup LongAnswers
    /\ selectOut = Null
    /\ unitIn = Null
    /\ unitOut = Null

\* sortAudioFormats on the formats as they are, and resolve's selection
SelectApply ==
    /\ selectOut = Null
    /\ selectOut' = Some([sorted |-> sortAudioFormats(selectIn),
                          outcome |-> ResolveOutcome("v1", Info(selectIn))])
    /\ UNCHANGED <<config, now, resolutionCache, req, callsStarted, lastPut,
                   agentVars, serviceVars, rangeVars, selectIn, unitVars>>

SelectNext == SelectApply

SelectSpec == SelectInit /\ [][SelectNext]_vars

-----------------------------------------------------------------------------
(* The Expiry Parser on its own: parseExpiryFromUrl for an absent URL, a     *)
(* text that is no URL, and URLs with every kind of expire parameter         *)

UrlUnparsable == [parsable |-> FALSE, tag |-> "text", expire |-> Expire("absent", 0)]

ExpireChoices ==
    { Expire(k, 0) : k \in {"absent", "empty", "text", "blank", "infinite", "huge"} }
    \cup { Expire("num", n) : n \in 0..MaxExpire }

ExpiryInputs ==
    { Null, Some(UrlUnparsable) } \cup { Some(Url("u", e)) : e \in ExpireChoices }

\* a fresh resolver on which one function is applied to one of the inputs
UnitInit(name, inputs) ==
    /\ scope = name
    /\ resolverEnabled = TRUE
    /\ proxyEnabled = TRUE
    /\ now = T0
    /\ resolutionCache = EmptyCache
    /\ req = [r \in Reqs |-> IdleReq]
    /\ callsStarted = 0
    /\ lastPut = [v \in VideoIds |-> Null]
    /\ cookieConfig = NoCookies
    /\ agent = Undefined
    /\ agentLog = NoLog
    /\ ytmusic = NoService
    /\ search = NoSearch
    /\ rangeIn = [header |-> Null, contentLength |-> Null]
    /\ rangeOut = Null
    /\ selectIn = <<>>
    /\ selectOut = Null
    /\ unitIn \in inputs
    /\ unitOut = Null

ExpiryInit == UnitInit("expiry", ExpiryInputs)

ExpiryApply ==
    /\ unitOut = Null
    /\ unitOut' = Some([expiresAt |-> parseExpiryFromUrl(unitIn)])
    /\ UNCHANGED <<config, now, resolutionCache, req, callsStarted, lastPut,
                   agentVars, serviceVars, rangeVars, selectVars, unitIn>>

ExpiryNext == ExpiryApply

ExpirySpec == ExpiryInit /\ [][ExpiryNext]_vars

-----------------------------------------------------------------------------
(* The External CLI Fallback on its own: resolveDirectUrlWithYtDlp for every *)
(* way the process can fail and every output of up to MaxLines lines         *)

MaxLines == 2

StdoutLines ==
    { StdoutLine(lead, scheme, rest, trail) :
        lead \in BOOLEAN,
        scheme \in {"", "ftp://", "http://", "https://", "HTTPS://"},
        rest \in {UrlPlain, UrlCli},
        trail \in BOOLEAN }

\* every way the process can end with every output of up to maxLines lines
CliInputs(maxLines) ==
    { CliOutcome(f, out) :
        f \in CliFailures \cup {"none"},
        out \in UNION { [1..n -> StdoutLines] : n \in 0..maxLines } }

CliInit == UnitInit("cli", CliInputs(MaxLines))

CliApply ==
    /\ unitOut = Null
    /\ unitOut' = Some(ytDlpUrlOf(unitIn))
    /\ UNCHANGED <<config, now, resolutionCache, req, callsStarted, lastPut,
                   agentVars, serviceVars, rangeVars, selectVars, unitIn>>

CliNext == CliApply

CliSpec == CliInit /\ [][CliNext]_vars

-----------------------------------------------------------------------------
(* The Resolution Cache on its own: the four operations of the map applied   *)
(* in any order to a fresh resolver, at the instants of CacheInstants.       *)
(* unitOut records the last operation: its name, its trackId, the map and    *)
(* the clock it found, its argument and what it returned.                    *)

\* the resolutions that resolve stores: a URL with an expiry and one without
CacheResolutions ==
    { BuildResolved(v, Info(<<FmtM4a(Some(u))>>), <<FmtM4a(Some(u))>>) :
        v \in VideoIds, u \in {UrlFar, UrlNear, UrlPlain} }

\* the URLs that yt-dlp gives
PatchUrls == {UrlCli, UrlPlain}

CacheInstants ==
    { T0, T0 + SafetyWindowMs, T0 + 50000 - ExpiryMarginMs,
      T0 + fallbackTtlMs - ExpiryMarginMs - 1, T0 + fallbackTtlMs - ExpiryMarginMs }

CacheOp(op, videoId, arg, returned) ==
    Some([op |-> op, videoId |-> videoId, before |-> resolutionCache, at |-> now,
          arg |-> arg, returned |-> returned])

CacheInit == UnitInit("cache", {Null})

CacheGet(v) ==
    LET got == getCachedResolution(resolutionCache, v, now) IN
    /\ scope = "cache"
    /\ resolutionCache' = got.cache
    /\ unitOut' = CacheOp("get", v, Null, got.value)
    /\ UNCHANGED <<config, now, req, callsStarted, lastPut,
                   agentVars, serviceVars, rangeVars, selectVars, unitIn>>

CachePut(resolution) ==
    /\ scope = "cache"
    /\ resolutionCache' = setCachedResolution(resolutionCache, resolution, now)
    /\ lastPut' = NotePut(lastPut, resolution, now, 0)
    /\ unitOut' = CacheOp("put", resolution.videoId, Some(resolution), Null)
    /\ UNCHANGED <<config, now, req, callsStarted,
                   agentVars, serviceVars, rangeVars, selectVars, unitIn>>

CacheInvalidate(v) ==
    /\ scope = "cache"
    /\ resolutionCache' = clearCachedResolution(resolutionCache, v)
    /\ lastPut' = [lastPut EXCEPT ![v] = Null]
    /\ unitOut' = CacheOp("invalidate", v, Null, Null)
    /\ UNCHANGED <<config, now, req, callsStarted,
                   agentVars, serviceVars, rangeVars, selectVars, unitIn>>

CachePatch(v, directUrl) ==
    /\ scope = "cache"
    /\ resolutionCache' =
         updateCachedResolutionDirectUrl(resolutionCache, v, directUrl, now)
    /\ lastPut' = IF IsNull(getCachedResolution(resolutionCache, v, now).value)
                  THEN lastPut
                  ELSE NotePut(lastPut, Val(resolutionCache'[v]).value, now, 0)
    /\ unitOut' = CacheOp("patch", v, Some(directUrl), Null)
    /\ UNCHANGED <<config, now, req, callsStarted,
                   agentVars, serviceVars, rangeVars, selectVars, unitIn>>

CacheNext ==
    \/ \E v \in VideoIds : CacheGet(v)
    \/ \E resolution \in CacheResolutions : CachePut(resolution)
    \/ \E v \in VideoIds : CacheInvalidate(v)
    \/ \E v \in VideoIds, u \in PatchUrls : CachePatch(v, u)
    \/ \E t \in CacheInstants : Tick(t)

CacheSpec == CacheInit /\ [][CacheNext]_vars

-----------------------------------------------------------------------------
(* The cookie source on its own: parseConfiguredYtdlCookies for every JSON   *)
(* array of up to MaxEntries entries and every header of up to MaxHeader     *)
(* characters                                                                *)

MaxEntries == 2
MaxHeader == 5

HeaderChars == {"a", "b", "=", ";", " "}

\* config.ytmusic.cookies of the text of YTMUSIC_COOKIES
ConfigCookies(raw) ==
    IF TrimText(raw) = <<>> THEN Null ELSE Some(TrimText(raw))

\* the values of config.ytmusic.cookies for the texts of up to maxLen
\* characters
Headers(maxLen) ==
    { ConfigCookies(raw) :
        raw \in UNION { [1..n -> HeaderChars] : n \in 0..maxLen } }

JsonFields == {JAbsent, JNumber, JString(<<>>), JString(<<"a">>)}
JsonEntries ==
    JsonScalars
    \cup { JsonObject(name, value, ".youtube.com") :
             name \in JsonFields, value \in JsonFields }

\* the JSON texts, the arrays being of up to maxEntries entries
JsonTexts(maxEntries) ==
    {JsonEmpty, JsonMalformed, JsonNotArray}
    \cup { JsonArray(entries) :
             entries \in UNION { [1..n -> JsonEntries] : n \in 0..maxEntries } }

\* every JSON text with and without a header, every header without JSON
CookieInputs(maxEntries, maxLen) ==
    { CookieConfig(Some(j), h) :
        j \in JsonTexts(maxEntries), h \in {Null, Some(<<"a", "=", "b">>)} }
    \cup { CookieConfig(j, h) :
             j \in {Null, Some(JsonEmpty)}, h \in Headers(maxLen) }

CookieInit == UnitInit("cookies", CookieInputs(MaxEntries, MaxHeader))

CookieApply ==
    /\ unitOut = Null
    /\ unitOut' = Some(parseConfiguredYtdlCookies(unitIn))
    /\ UNCHANGED <<config, now, resolutionCache, req, callsStarted, lastPut,
                   agentVars, serviceVars, rangeVars, selectVars, unitIn>>

CookieNext == CookieApply

CookieSpec == CookieInit /\ [][CookieNext]_vars

-----------------------------------------------------------------------------
(* The metadata service on its own: concurrent calls of its methods, with    *)
(* client.initialize answering, failing or staying pending                   *)

ServiceInit == UnitInit("ytmusic", {Null})

\* a route handler calls a method of the service
ServiceCall(c) ==
    /\ scope = "ytmusic"
    /\ ytmusic.callers[c].pc = "idle"
    /\ Len(ytmusic.attempts) < MaxAttempts
    /\ ytmusic' = ensureInitialized(ytmusic, c)
    /\ UNCHANGED <<config, now, resolutionCache, req, callsStarted, lastPut,
                   agentVars, search, rangeVars, selectVars, unitVars>>

InitializeAnswers(k, ok) ==
    /\ scope = "ytmusic"
    /\ k \in 1..Len(ytmusic.attempts)
    /\ ytmusic.attempts[k].state = "calling"
    /\ ytmusic' = AfterInitialize(ytmusic, k, ok)
    /\ UNCHANGED <<config, now, resolutionCache, req, callsStarted, lastPut,
                   agentVars, search, rangeVars, selectVars, unitVars>>

InitCatchRuns(k) ==
    /\ scope = "ytmusic"
    /\ k \in 1..Len(ytmusic.attempts)
    /\ ytmusic.attempts[k].state = "thrown"
    /\ ytmusic' = OnInitRejected(ytmusic, k)
    /\ UNCHANGED <<config, now, resolutionCache, req, callsStarted, lastPut,
                   agentVars, search, rangeVars, selectVars, unitVars>>

ServiceResumes(c) ==
    /\ scope = "ytmusic"
    /\ ytmusic.callers[c].pc = "awaiting"
    /\ ytmusic.attempts[ytmusic.callers[c].awaits].state \in {"fulfilled", "rejected"}
    /\ ytmusic' = AfterAwait(ytmusic, c)
    /\ UNCHANGED <<config, now, resolutionCache, req, callsStarted, lastPut,
                   agentVars, search, rangeVars, selectVars, unitVars>>

\* the method ends, with the client's answer or the error of the attempt
ServiceCallEnds(c) ==
    /\ scope = "ytmusic"
    /\ ytmusic.callers[c].pc \in {"returned", "failed"}
    /\ ytmusic' = [ytmusic EXCEPT !.callers[c] = IdleCaller]
    /\ UNCHANGED <<config, now, resolutionCache, req, callsStarted, lastPut,
                   agentVars, search, rangeVars, selectVars, unitVars>>

ServiceNext ==
    \/ \E c \in Callers : ServiceCall(c)
    \/ \E k \in 1..MaxAttempts, ok \in BOOLEAN : InitializeAnswers(k, ok)
    \/ \E k \in 1..MaxAttempts : InitCatchRuns(k)
    \/ \E c \in Callers : ServiceResumes(c)
    \/ \E c \in Callers : ServiceCallEnds(c)

ServiceSpec == ServiceInit /\ [][ServiceNext]_vars

-----------------------------------------------------------------------------
(* The HTTP layer of the playback routes: requireParam, the route handlers   *)
(* under asyncHandler, and the error handler of the application              *)

MaxParam == 3

\* what a handler can throw: an Error object (an AppError or not), or some
\* other value
Thrown(isError, error) == [isError |-> isError, error |-> error]

\* an error handler that answers every error as an internal one
errorHandler_AlwaysInternal(thrown, isDev) ==
    LET error == thrown.error
        message == IF thrown.isError THEN error.message
                   ELSE <<"Unexpected server error">>
    IN [status |-> 500,
        body |-> [ok |-> FALSE,
                  error |-> [code |-> "INTERNAL_SERVER_ERROR", message |-> message,
                             details |-> FALSE, stack |-> isDev /\ thrown.isError]]]

\* errorHandler: the status and the JSON body of the response
errorHandler(thrown, isDev) ==
    LET error == thrown.error
        isAppError == thrown.isError /\ error.app
        status == IF isAppError THEN error.status ELSE 500
        code == IF isAppError THEN error.code ELSE "INTERNAL_SERVER_ERROR"
        message == IF thrown.isError THEN error.message
                   ELSE <<"Unexpected server error">>
    IN [status |-> status,
        body |-> [ok |-> FALSE,
                  error |-> [code |-> code, message |-> message,
                             details |-> isDev /\ isAppError /\ error.detail # 0,
                             stack |-> isDev /\ thrown.isError /\ ~isAppError]]]

\* requireParam: the error thrown, or the trimmed value returned; rawValue is
\* Null when the parameter is not a string
requireParam(name, rawValue) ==
    IF IsNull(rawValue) \/ TrimText(Val(rawValue)) = <<>>
    THEN [thrown |-> Some(AppError(400, "Missing path parameter", "MISSING_PATH_PARAM", 0)),
          value |-> <<>>]
    ELSE [thrown |-> Null, value |-> TrimText(Val(rawValue))]

\* a playback route up to its await: the error that asyncHandler passes to
\* next, or the call of the resolver
PlaybackRoute(route, rawValue) ==
    LET param == requireParam("videoId", rawValue) IN
    IF ~IsNull(param.thrown)
    THEN [passed |-> Some(Thrown(TRUE, Val(param.thrown))), resolverCalls |-> <<>>]
    ELSE [passed |-> Null,
          resolverCalls |-> <<[method |-> IF route = "resolve" THEN "resolve" ELSE "proxy",
                               videoId |-> param.value]>>]

\* the AppErrors of the server, Error objects of the libraries, and a value
\* that is no Error
ThrownValues ==
    { Thrown(TRUE, AppError(status, "message", code, detail)) :
        status \in {400, 404, 416, 500, 501, 502, 503},
        code \in {"APP_ERROR", "MISSING_PATH_PARAM", "NO_AUDIO_FORMATS",
                  "INVALID_RANGE_HEADER", "INVALID_YTDL_COOKIES_JSON",
                  "PLAYBACK_RESOLVER_DISABLED", "PLAYBACK_PROXY_STREAM_ERROR",
                  "YOUTUBE_BOT_CHECK", "INTERNAL_SERVER_ERROR"},
        detail \in {0, 1} }
    \cup { Thrown(TRUE, error) : error \in InfoErrors \cup {LibraryError(<<>>)} }
    \cup { Thrown(FALSE, LibraryError(<<>>)) }

ParamChars == {" ", "v", "1"}
RawParams ==
    {Null} \cup { Some(text) : text \in UNION { [1..n -> ParamChars] : n \in 0..MaxParam } }

HttpInputs ==
    { [kind |-> "error", thrown |-> t, isDev |-> d, route |-> "", rawParam |-> Null] :
        t \in ThrownValues, d \in BOOLEAN }
    \cup { [kind |-> "route", thrown |-> Thrown(FALSE, LibraryError(<<>>)), isDev |-> d,
             route |-> k, rawParam |-> p] :
             d \in BOOLEAN, k \in {"resolve", "stream"}, p \in RawParams }

HttpInit == UnitInit("http", HttpInputs)

\* next(error) reaches the error handler
HandleError ==
    /\ unitOut = Null
    /\ unitIn.kind = "error"
    /\ unitOut' = Some([response |-> Some(errorHandler(unitIn.thrown, unitIn.isDev)),
                        resolverCalls |-> <<>>])
    /\ UNCHANGED <<config, now, resolutionCache, req, callsStarted, lastPut,
                   agentVars, serviceVars, rangeVars, selectVars, unitIn>>

\* GET /playback/:videoId/resolve or /stream up to the resolver's answer
HandleRoute ==
    /\ unitOut = Null
    /\ unitIn.kind = "route"
    /\ LET routed == PlaybackRoute(unitIn.route, unitIn.rawParam) IN
       unitOut' = Some([response |->
                           IF IsNull(routed.passed) THEN Null
                           ELSE Some(errorHandler(Val(routed.passed), unitIn.isDev)),
                        resolverCalls |-> routed.resolverCalls])
    /\ UNCHANGED <<config, now, resolutionCache, req, callsStarted, lastPut,
                   agentVars, serviceVars, rangeVars, selectVars, unitIn>>

HttpNext == HandleError \/ HandleRoute

HttpSpec == HttpInit /\ [][HttpNext]_vars

-----------------------------------------------------------------------------
(* The search screen on its own: the user edits the query, tasks call        *)
(* searchNow and loadNextPage, the API client answers in any order, and a    *)
(* task can be cancelled while it waits                                      *)

\* the texts of the search field: nothing, a, A after a blank, b
Queries == { <<>>, <<"a">>, <<" ", "A">>, <<"b">> }

\* what the API client gives: a batch of up to MaxSongs songs with or
\* without a next page, or an error
Batch(songs, nextPagePath) ==
    [failed |-> FALSE, songs |-> songs, nextPagePath |-> nextPagePath]
ApiAnswers ==
    { Batch(songs, path) :
        songs \in UNION { [1..n -> 1..MaxSongs] : n \in 0..MaxSongs },
        path \in {Null, Some("next")} }
    \cup { [failed |-> TRUE, songs |-> <<>>, nextPagePath |-> Null] }

SearchInit == UnitInit("search", {Null})

FreeTask(t) ==
    /\ search.tasks[t].state = "none"
    /\ \A u \in Tasks : u < t => search.tasks[u].state # "none"

RestUnchanged ==
    UNCHANGED <<config, now, resolutionCache, req, callsStarted, lastPut,
                agentVars, ytmusic, rangeVars, selectVars, unitVars>>

\* the user edits the text of the search field
EditQuery(text) ==
    /\ scope = "search"
    /\ search.query # text
    /\ search' = [search EXCEPT !.query = text]
    /\ RestUnchanged

SearchNow(t) ==
    /\ scope = "search"
    /\ FreeTask(t)
    /\ search' = searchNowBegin(search, t)
    /\ RestUnchanged

SearchAnswers(t, answer) ==
    /\ scope = "search"
    /\ search.tasks[t].state = "awaiting" /\ search.tasks[t].kind = "search"
    /\ search' = searchNowReturns(search, t, answer)
    /\ RestUnchanged

LoadNextPage(t) ==
    /\ scope = "search"
    /\ FreeTask(t)
    /\ CanLoadNextPage(search)
    /\ search' = loadNextPageBegin(search, t)
    /\ RestUnchanged

PageAnswers(t, answer) ==
    /\ scope = "search"
    /\ search.tasks[t].state = "awaiting" /\ search.tasks[t].kind = "page"
    /\ search' = loadNextPageReturns(search, t, answer)
    /\ RestUnchanged

\* Task.cancel() on a task that waits for the API client
CancelTask(t) ==
    /\ scope = "search"
    /\ search.tasks[t].state = "awaiting" /\ ~search.tasks[t].cancelled
    /\ search' = [search EXCEPT !.tasks[t].cancelled = TRUE]
    /\ RestUnchanged

SearchNext ==
    \/ \E text \in Queries : EditQuery(text)
    \/ \E t \in Tasks : SearchNow(t)
    \/ \E t \in Tasks, a \in ApiAnswers : SearchAnswers(t, a)
    \/ \E t \in Tasks : LoadNextPage(t)
    \/ \E t \in Tasks, a \in ApiAnswers : PageAnswers(t, a)
    \/ \E t \in Tasks : CancelTask(t)

SearchSpec == SearchInit /\ [][SearchNext]_vars

-----------------------------------------------------------------------------
(* Properties *)

Succeeded(q) == q.outcome = "streaming" /\ q.pc \in {"streaming", "done"}
FailedWith(q, status, code) ==
    /\ q.pc = "done" /\ q.outcome = "error"
    /\ Val(q.err).status = status /\ Val(q.err).code = code
Statuses(q) == [i \in 1..Len(q.fetchLog) |-> q.fetchLog[i].status]

\* C1: an entry put at time p has expiresAtMs >= p + 5000 whatever the
\* resolution's expiresAt is, so until p + 5000 (and with no invalidation in
\* between) the entry is still in the map and a get returns the resolution put.
C1_PutServedFiveSeconds ==
    \A v \in VideoIds :
      ~IsNull(lastPut[v]) =>
        LET p == Val(lastPut[v]) IN
        /\ ~IsNull(resolutionCache[v]) =>
             /\ Val(resolutionCache[v]).value = p.value
             /\ Val(resolutionCache[v]).expiresAtMs >= p.at + 5000
        /\ now < p.at + 5000 =>
             getCachedResolution(resolutionCache, v, now).value = Some(p.value)

\* a proxy call was served from the cache, more than 0 and less than 5000 ms
\* after the put of a resolution whose upstream expiry was already past
C1_Witness ==
    \E v \in VideoIds, r \in Reqs :
      /\ ~IsNull(lastPut[v])
      /\ ~IsNull(Val(lastPut[v]).value.expiresAt)
      /\ DateParse(Val(Val(lastPut[v]).value.expiresAt)) < Val(lastPut[v]).at
      /\ now > Val(lastPut[v]).at /\ now < Val(lastPut[v]).at + 5000
      /\ req[r].kind = "proxy" /\ req[r].videoId = v /\ req[r].cacheWrites = 0
      /\ req[r].hitAtStart = Some(Val(lastPut[v]).value)

\* C2 as stated: a get never returns a resolution with upstream expiry E at
\* a time later than E - 30 s.
C2_RetiredThirtySecondsBeforeExpiry ==
    \A v \in VideoIds :
      LET got == getCachedResolution(resolutionCache, v, now).value IN
      (~IsNull(got) /\ ~IsNull(Val(got).expiresAt)) =>
         now <= DateParse(Val(Val(got).expiresAt)) - 30000

\* C2 amended: a get returns a resolution with upstream expiry E, put at time
\* p, only at times before max(E - 30 s, p + 5 s).
C2_RetiredBeforeExpiryOrWindow ==
    \A v \in VideoIds :
      LET got == getCachedResolution(resolutionCache, v, now).value IN
      (~IsNull(got) /\ ~IsNull(Val(got).expiresAt)) =>
         /\ ~IsNull(lastPut[v]) /\ Val(lastPut[v]).value = Val(got)
         /\ now < Max(DateParse(Val(Val(got).expiresAt)) - 30000,
                      Val(lastPut[v]).at + 5000)

\* an entry whose upstream expiry is more than 35 s after its put has been
\* retired: the clock stands at E - 30 s and a get returns nothing
C2_Witness ==
    \E v \in VideoIds :
      /\ ~IsNull(resolutionCache[v])
      /\ ~IsNull(Val(resolutionCache[v]).value.expiresAt)
      /\ now = DateParse(Val(Val(resolutionCache[v]).value.expiresAt)) - 30000
      /\ now > Val(lastPut[v]).at + 5000
      /\ IsNull(getCachedResolution(resolutionCache, v, now).value)

\* C3 as stated: a resolve call that starts while a live entry for its track
\* is cached calls the metadata fetcher no more and returns the cached
\* resolution.
C3_SecondResolveServedFromCache ==
    \A r \in Reqs :
      (req[r].kind = "resolve" /\ req[r].pc = "done" /\ req[r].outcome = "ok"
         /\ ~IsNull(req[r].hitAtStart)) =>
        /\ req[r].metaCalls = 0
        /\ req[r].resolved = req[r].hitAtStart

\* C4 as stated: a proxy call whose fetches answered 403 then 200 succeeds
\* from the primary source, without the CLI, with exactly two metadata calls.
C4_RetryMakesTwoMetadataCalls ==
    \A r \in Reqs :
      (req[r].kind = "proxy" /\ req[r].pc \in {"streaming", "done"}
         /\ Statuses(req[r]) = <<403, 200>>) =>
        /\ Succeeded(req[r])
        /\ req[r].res.proxySource = Some("ytdl-core")
        /\ req[r].cliCalls = 0
        /\ req[r].metaCalls = 2

\* C4 amended: when the 200 answer carries a body, the call succeeds from the
\* primary source without the CLI, and it has made two metadata calls if it
\* started with a cache miss and one if it started with a cache hit.
C4_RetryMetadataCallsByCacheState ==
    \A r \in Reqs :
      (req[r].kind = "proxy" /\ req[r].pc \in {"streaming", "done"}
         /\ Statuses(req[r]) = <<403, 200>> /\ Val(req[r].upstream).hasBody) =>
        /\ Succeeded(req[r])
        /\ req[r].res.proxySource = Some("ytdl-core")
        /\ req[r].cliCalls = 0
        /\ req[r].invalidations = 1
        /\ req[r].metaCalls = IF IsNull(req[r].hitAtStart) THEN 2 ELSE 1

C4_Witness ==
    \E r \in Reqs :
      /\ req[r].kind = "proxy" /\ Succeeded(req[r])
      /\ Statuses(req[r]) = <<403, 200>>
      /\ IsNull(req[r].hitAtStart) /\ req[r].metaCalls = 2

\* C5: with the resolver flag off a resolve call fails with 501
\* PLAYBACK_RESOLVER_DISABLED, calls the metadata fetcher never, and neither
\* reads nor writes the cache (which therefore stays empty).
C5_ResolverDisabled ==
    ~resolverEnabled =>
      /\ resolutionCache = EmptyCache
      /\ \A r \in Reqs :
           req[r].kind = "resolve" =>
             /\ FailedWith(req[r], 501, "PLAYBACK_RESOLVER_DISABLED")
             /\ req[r].metaCalls = 0
             /\ req[r].cacheReads = 0 /\ req[r].cacheWrites = 0

C5_Witness ==
    \E r \in Reqs :
      /\ ~resolverEnabled /\ req[r].kind = "resolve"
      /\ FailedWith(req[r], 501, "PLAYBACK_RESOLVER_DISABLED")

\* C6: with the resolver flag or the proxy flag off a proxy call fails with
\* 501 PLAYBACK_PROXY_DISABLED and has looked up no cache entry, fetched no
\* metadata and no audio, invoked no CLI and set no response header.
C6_ProxyDisabled ==
    (~resolverEnabled \/ ~proxyEnabled) =>
      \A r \in Reqs :
        req[r].kind = "proxy" =>
          /\ FailedWith(req[r], 501, "PLAYBACK_PROXY_DISABLED")
          /\ req[r].cacheReads = 0 /\ req[r].cacheWrites = 0
          /\ req[r].metaCalls = 0 /\ req[r].fetches = 0 /\ req[r].cliCalls = 0
          /\ req[r].invalidations = 0
          /\ req[r].res = EmptyResponse

\* the resolver is on, the proxy is off, and a track is cached
C6_Witness ==
    \E r \in Reqs :
      /\ resolverEnabled /\ ~proxyEnabled
      /\ req[r].kind = "proxy" /\ req[r].pc = "done"
      /\ ~IsNull(resolutionCache[req[r].videoId])

\* C7: one proxy call makes at most 2 metadata fetches, 3 audio fetches,
\* 1 cache invalidation and 1 CLI invocation.
C7_SingleRetry ==
    \A r \in Reqs :
      /\ req[r].metaCalls <= 2
      /\ req[r].fetches <= 3
      /\ req[r].invalidations <= 1
      /\ req[r].cliCalls <= 1

C7_Witness ==
    \E r \in Reqs :
      /\ req[r].kind = "proxy"
      /\ req[r].metaCalls = 2 /\ req[r].fetches = 3
      /\ req[r].invalidations = 1 /\ req[r].cliCalls = 1
      /\ Len(req[r].fetchLog) = 3

\* C8: a proxy call that has started reaches SUCCESS (it streams) or FAIL (it
\* has thrown), given that every awaited call returns or fails.
C8_ProxyTerminates ==
    \A r \in Reqs :
      (req[r].kind = "proxy" /\ req[r].pc \in {"awaitInfo", "awaitFetch", "awaitCli"})
        ~> (req[r].pc \in {"streaming", "done"})

\* the longest path has ended: two 403 answers, the CLI, a third fetch
C8_Witness ==
    \E r \in Reqs :
      /\ req[r].kind = "proxy" /\ req[r].pc = "done"
      /\ req[r].cliCalls = 1 /\ req[r].fetches = 3 /\ req[r].metaCalls = 2

\* the upstream status of a call reached proxy's final status check
ReachedFinalCheck(q) ==
    /\ q.kind = "proxy" /\ q.pc \in {"streaming", "done"}
    /\ ~IsNull(q.upstream)
    /\ ~(q.attempt = 1 /\ Val(q.upstream).status = 403)

\* C9: a body is piped only after a final upstream status of 200 or 206; any
\* other final status fails the call with 502 PLAYBACK_PROXY_STREAM_ERROR
\* carrying that status, and nothing is piped.
C9_StreamOnlyOn2xx ==
    \A r \in Reqs :
      /\ req[r].res.piping =>
           /\ ReachedFinalCheck(req[r])
           /\ Val(req[r].upstream).status \in {200, 206}
           /\ req[r].res.statusCode = Val(req[r].upstream).status
      /\ (ReachedFinalCheck(req[r]) /\ Val(req[r].upstream).status \notin {200, 206}) =>
           /\ FailedWith(req[r], 502, "PLAYBACK_PROXY_STREAM_ERROR")
           /\ Val(req[r].err).detail = Val(req[r].upstream).status
           /\ ~req[r].res.piping

\* two 403 answers, then the CLI gave no URL: the call fails with 502
C9_Witness ==
    \E r \in Reqs :
      /\ ReachedFinalCheck(req[r]) /\ req[r].cliCalls = 1
      /\ Val(req[r].upstream).status = 403
      /\ req[r].fetches = 2
      /\ FailedWith(req[r], 502, "PLAYBACK_PROXY_STREAM_ERROR")

\* the value of a digit string, and whether it is one of the over-long ones
IsLong(raw) == raw = LongDigits

\* the range [s, e] was accepted against the total length
RangeAccepted(q, s, e, total) ==
    /\ q.pc = "awaitFetch" /\ IsNull(q.err)
    /\ 0 <= s /\ s <= e /\ e <= total - 1
    /\ q.res.contentRange = Some(SatisfiedRange(s, e, total))
    /\ q.res.contentLength = Some(e - s + 1)

\* the three forms of the claim, for the digit strings a and b; `long` says
\* whether the over-long digit strings are among the numbers claimed for
RangeForms(q, a, b, total, long) ==
    /\ (a # <<>> /\ b # <<>> /\ ~IsLong(a) /\ (long \/ ~IsLong(b))) =>
         ((DecimalValue(a) < total /\ (IsLong(b) \/ DecimalValue(a) <= DecimalValue(b)))
            => RangeAccepted(q, DecimalValue(a),
                             IF IsLong(b) THEN total - 1
                             ELSE Min(DecimalValue(b), total - 1), total))
    /\ (a # <<>> /\ b = <<>> /\ ~IsLong(a)) =>
         (DecimalValue(a) < total
            => RangeAccepted(q, DecimalValue(a), total - 1, total))
    /\ (a = <<>> /\ b # <<>> /\ (long \/ ~IsLong(b))) =>
         ((IsLong(b) \/ DecimalValue(b) > 0)
            => RangeAccepted(q, IF IsLong(b) THEN 0
                                ELSE Max(total - DecimalValue(b), 0),
                             total - 1, total))

RangeClaim(long) ==
    ~IsNull(rangeOut) =>
      LET q == Val(rangeOut)
          h == rangeIn.header
          cl == rangeIn.contentLength
      IN (~IsNull(h) /\ Val(h).match /\ ~IsNull(cl) /\ Val(cl) > 0) =>
           RangeForms(q, Val(h).rawStart, Val(h).rawEnd, Val(cl), long)

\* C10 as stated: against a known total T > 0, bytes=s-e with s <= e, s < T
\* gives [s, min(e, T-1)], bytes=s- with s < T gives [s, T-1], bytes=-n with
\* n > 0 gives [max(T-n, 0), T-1], with Content-Range bytes start-end/T,
\* Content-Length end-start+1 and 0 <= start <= end <= T-1, for all numbers.
C10_RangeForAllNumbers == RangeClaim(TRUE)

\* C10 amended: the same, for the numbers s, e, n whose digits convert to a
\* finite number (below 2^1024, that is up to 308 digits).
C10_RangeForFiniteNumbers == RangeClaim(FALSE)

\* an end beyond the total length was clamped to T-1
C10_Witness ==
    /\ ~IsNull(rangeOut) /\ ~IsNull(rangeIn.header) /\ ~IsNull(rangeIn.contentLength)
    /\ Val(rangeIn.header).match
    /\ Val(rangeIn.header).rawStart = <<1>>
    /\ Val(rangeIn.header).rawEnd = <<3, 3>>
    /\ Val(rangeIn.contentLength) = 10
    /\ Val(rangeOut).res.contentRange = Some(SatisfiedRange(1, 9, 10))
    /\ Val(rangeOut).res.contentLength = Some(9)
    /\ Val(rangeOut).res.statusCode = 206

\* the Range header h is one the claim calls invalid against the total T:
\* not of the form bytes=digits-digits, both parts empty, a zero suffix
\* length, a start of T or more, or an end below the start
RangeRejectable(h, total) ==
    LET a == h.rawStart
        b == h.rawEnd
    IN \/ ~h.match
       \/ a = <<>> /\ b = <<>>
       \/ a = <<>> /\ b # <<>> /\ ~IsLong(b) /\ DecimalValue(b) = 0
       \/ a # <<>> /\ (IsLong(a) \/ DecimalValue(a) >= total)
       \/ a # <<>> /\ b # <<>> /\ ~IsLong(a) /\ ~IsLong(b)
            /\ DecimalValue(b) < DecimalValue(a)

RangeRejected(q, total) ==
    /\ q.pc = "done" /\ q.outcome = "error" /\ Val(q.err).status = 416
    /\ Val(q.err).code \in {"INVALID_RANGE_HEADER", "RANGE_NOT_SATISFIABLE"}
    /\ q.res.contentRange = Some(UnsatisfiedRange(total))
    /\ q.fetches = 0 /\ q.cliCalls = 0

\* `empties` says whether the header with an empty value is among the headers
\* claimed for
RejectionClaim(empties) ==
    ~IsNull(rangeOut) =>
      LET q == Val(rangeOut)
          h == rangeIn.header
          cl == rangeIn.contentLength
      IN /\ (~IsNull(h) /\ (empties \/ ~Val(h).empty) /\ ~IsNull(cl) /\ Val(cl) > 0
               /\ RangeRejectable(Val(h), Val(cl)))
              => RangeRejected(q, Val(cl))
         /\ (q.outcome = "error" /\ Val(q.err).status = 416)
              => (q.fetches = 0 /\ q.cliCalls = 0)

\* C11 as stated: with a known total T, every Range header that is not of the
\* form bytes=digits-digits, or has both parts empty, a zero suffix length,
\* start >= T or end < start, fails the call with 416 and Content-Range
\* bytes [star]/T, and a 416 call has made no audio fetch and no CLI call.
C11_InvalidRangeRejected == RejectionClaim(TRUE)

\* what does hold: the same for every Range header whose value is not the
\* empty string (an empty value is treated as no Range header at all)
NonEmptyInvalidRangeRejected == RejectionClaim(FALSE)

\* the byte range proxy computed from the Range header of the call, if any
ComputedRange(q) ==
    IF ~IsNull(q.upstreamRange) /\ Val(q.upstreamRange).computed
    THEN Some([start |-> Val(q.upstreamRange).start, end |-> Val(q.upstreamRange).end])
    ELSE Null

\* C12 as stated: a proxy call with a valid Range header and a known total
\* length T that reaches SUCCESS sends status 206, Content-Range
\* bytes start-end/T and Content-Length end-start+1 as computed from the
\* request, whatever the upstream response that let it succeed.
C12_RangeSuccessIs206 ==
    \A r \in Reqs :
      (req[r].kind = "proxy" /\ Succeeded(req[r]) /\ ~IsNull(ComputedRange(req[r]))) =>
        LET range == Val(ComputedRange(req[r])) IN
        /\ req[r].res.statusCode = 206
        /\ \E total \in 1..MaxTotal :
             req[r].res.contentRange =
               Some(SatisfiedRange(range.start, range.end, total))
        /\ req[r].res.contentLength = Some(range.end - range.start + 1)

\* the score as the claims state it
BitrateOf(format) == IF IsNull(format.audioBitrate) THEN 0 ELSE Val(format.audioBitrate)
ClaimedScore(format) == (IF isIosFriendlyAudio(format) THEN 1000 ELSE 0) + BitrateOf(format)

WithScore(formats, score) == SelectSeq(formats, LAMBDA f : ClaimedScore(f) = score)

\* C13: the output of sortAudioFormats is a permutation of its input in
\* non-increasing order of score = (1000 if preferred) + bitrate (0 if
\* missing), formats of equal score keeping their input order; the empty input
\* gives the empty output.
C13_SortedStablePermutation ==
    ~IsNull(selectOut) =>
      LET out == Val(selectOut).sorted IN
      /\ Len(out) = Len(selectIn)
      /\ \A i, j \in 1..Len(out) :
           i < j => ClaimedScore(out[i]) >= ClaimedScore(out[j])
      /\ \A k \in 1..Len(selectIn) :
           WithScore(out, ClaimedScore(selectIn[k]))
             = WithScore(selectIn, ClaimedScore(selectIn[k]))
      /\ (selectIn = <<>> => out = <<>>)

\* two formats of equal score around one of higher score came out with the
\* higher first and the equal ones in their input order
C13_Witness ==
    /\ ~IsNull(selectOut)
    /\ selectIn = <<SelWebm256b, SelM4a, SelWebm256>>
    /\ Val(selectOut).sorted = <<SelM4a, SelWebm256b, SelWebm256>>

\* C14: when the answer is one preferred format and one non-preferred
\* audio format whose bitrate is higher by less than 1000, in either order,
\* resolve selects the preferred one (and fails rather than select the other
\* when the preferred one carries no url).
C14_PreferredSelected ==
    (~IsNull(selectOut) /\ Len(selectIn) = 2) =>
      \A i \in 1..2 :
        LET p == selectIn[i]
            n == selectIn[3 - i]
            outcome == Val(selectOut).outcome
        IN (/\ isIosFriendlyAudio(p) /\ ~isIosFriendlyAudio(n)
            /\ ~p.hasVideo /\ ~n.hasVideo
            /\ BitrateOf(n) - BitrateOf(p) < 1000) =>
             IF IsNull(p.url) THEN IsNull(outcome.resolved)
             ELSE /\ ~IsNull(outcome.resolved)
                  /\ Val(outcome.resolved).selected = Describe(p)
                  /\ Val(outcome.resolved).selected.iosPreferred
                  /\ Val(outcome.resolved).directUrl = Val(p.url)

\* 1127 kbps webm first, 128 kbps mp4 second: the mp4 one is selected
C14_Witness ==
    /\ ~IsNull(selectOut)
    /\ selectIn = <<SelWebm1127, SelM4a>>
    /\ ~IsNull(Val(selectOut).outcome.resolved)
    /\ Val(Val(selectOut).outcome.resolved).selected.itag = Some(140)

\* the top-ranked audio format of an answer: the first of those with the
\* highest score, if there is any audio-only format
AudioIndexes(formats) ==
    { i \in 1..Len(formats) : formats[i].hasAudio /\ ~formats[i].hasVideo }
TopRanked(formats) ==
    LET best == CHOOSE i \in AudioIndexes(formats) :
                  \A j \in AudioIndexes(formats) :
                    \/ ClaimedScore(formats[i]) > ClaimedScore(formats[j])
                    \/ ClaimedScore(formats[i]) = ClaimedScore(formats[j]) /\ i <= j
    IN formats[best]

\* the call failed inside resolve: in the metadata fetch or in the selection
FailedInResolve(q) ==
    /\ q.pc = "done" /\ q.outcome = "error"
    /\ \/ ~Val(q.err).app
       \/ Val(q.err).code \in {"YOUTUBE_BOT_CHECK", "NO_AUDIO_FORMATS", "AUDIO_URL_MISSING"}

\* C15: resolve fails with 404 NO_AUDIO_FORMATS when the answer has no
\* audio-only format and with 502 AUDIO_URL_MISSING when the top-ranked one has
\* no url, whatever the other formats carry; after these failures and after a
\* failed metadata fetch the cache is as it was when resolve was called.
C15_ResolveFailuresLeaveCache ==
    \A r \in Reqs :
      LET q == req[r] IN
      /\ (~IsNull(q.lastInfo) /\ AudioIndexes(Val(q.lastInfo).formats) = {}) =>
           FailedWith(q, 404, "NO_AUDIO_FORMATS")
      /\ (~IsNull(q.lastInfo) /\ AudioIndexes(Val(q.lastInfo).formats) # {}
             /\ IsNull(TopRanked(Val(q.lastInfo).formats).url)) =>
           FailedWith(q, 502, "AUDIO_URL_MISSING")
      /\ FailedInResolve(q) =>
           (~IsNull(q.cacheAtResolve) /\ resolutionCache = Val(q.cacheAtResolve))

\* a resolve call failed with AUDIO_URL_MISSING although a lower-ranked format
\* had a url, and the entry an earlier call had cached is still there
C15_Witness ==
    \E r \in Reqs :
      /\ req[r].kind = "resolve"
      /\ FailedWith(req[r], 502, "AUDIO_URL_MISSING")
      /\ \E i \in 1..Len(Val(req[r].lastInfo).formats) :
           ~IsNull(Val(req[r].lastInfo).formats[i].url)
      /\ ~IsNull(resolutionCache[req[r].videoId])
      /\ resolutionCache = Val(req[r].cacheAtResolve)

\* C16: a proxy call that starts while a live entry for its track is cached
\* sends its first audio fetch to that entry's directUrl, with no metadata
\* fetch before it; a proxy call makes a metadata fetch only after a cache miss
\* at its start or after a first answer of 403 (and after a miss it makes one
\* before any audio fetch).
C16_ProxyReadsCacheFirst ==
    \A r \in Reqs :
      LET q == req[r] IN
      (q.kind = "proxy" /\ q.cacheReads > 0) =>
        /\ (~IsNull(q.hitAtStart) /\ q.fetches >= 1) =>
             /\ (q.fetches = 1 /\ q.pc = "awaitFetch") =>
                  (q.fetchUrl = Some(Val(q.hitAtStart).directUrl) /\ q.metaCalls = 0)
             /\ Len(q.fetchLog) >= 1 =>
                  q.fetchLog[1].url = Val(q.hitAtStart).directUrl
        /\ q.metaCalls > 0 =>
             \/ IsNull(q.hitAtStart)
             \/ Len(q.fetchLog) >= 1 /\ q.fetchLog[1].status = 403
        /\ (IsNull(q.hitAtStart) /\ q.fetches >= 1) => q.metaCalls >= 1

\* a proxy call served from the cache: its only fetch went to the cached
\* directUrl and succeeded, and it made no metadata fetch
C16_Witness ==
    \E r \in Reqs :
      /\ req[r].kind = "proxy" /\ Succeeded(req[r])
      /\ ~IsNull(req[r].hitAtStart)
      /\ req[r].metaCalls = 0 /\ Len(req[r].fetchLog) = 1
      /\ req[r].fetchLog[1].url = Val(req[r].hitAtStart).directUrl

\* the call went all the way: 403, 403 after re-resolution, then a 200 or 206
\* from the URL that yt-dlp printed
ServedByCli(q) ==
    /\ q.kind = "proxy" /\ q.pc \in {"streaming", "done"}
    /\ Len(q.fetchLog) = 3
    /\ q.fetchLog[1].status = 403 /\ q.fetchLog[2].status = 403
    /\ q.fetchLog[3].status \in {200, 206}

\* C17 as stated: after a call served by the CLI fallback the cache holds an
\* entry for the track whose directUrl is the CLI URL and the response is
\* tagged with the CLI source; no other response is tagged so.
C17_CliUrlCached ==
    \A r \in Reqs :
      LET q == req[r] IN
      /\ ServedByCli(q) =>
           /\ ~IsNull(resolutionCache[q.videoId])
           /\ Val(resolutionCache[q.videoId]).value.directUrl = q.fetchLog[3].url
           /\ q.res.proxySource = Some("yt-dlp")
      /\ q.res.proxySource = Some("yt-dlp") => ServedByCli(q)

\* C17 amended: after a call served by the CLI fallback the response is
\* tagged with the CLI source, and no other response is; if the cache still
\* returned an entry for the track at that moment, the cache now holds that
\* resolution with the CLI URL as its directUrl (and the expiry of that URL),
\* and if it returned none (the entry had expired or was gone) the cache holds
\* no entry for the track.
C17_CliUrlPatchedIfCached ==
    \A r \in Reqs :
      LET q == req[r] IN
      /\ ServedByCli(q) =>
           /\ q.res.proxySource = Some("yt-dlp")
           /\ ~IsNull(q.liveAtPatch)
           /\ LET live == Val(q.liveAtPatch).value
                  url == q.fetchLog[3].url
              IN IF IsNull(live) THEN IsNull(resolutionCache[q.videoId])
                 ELSE /\ ~IsNull(resolutionCache[q.videoId])
                      /\ Val(resolutionCache[q.videoId]).value =
                           [Val(live) EXCEPT !.directUrl = url,
                                             !.expiresAt = parseExpiryFromUrl(Some(url))]
      /\ q.res.proxySource = Some("yt-dlp") => ServedByCli(q)

\* a call served by the CLI fallback left the CLI URL in the cache
C17_Witness ==
    \E r \in Reqs :
      /\ ServedByCli(req[r]) /\ Succeeded(req[r])
      /\ req[r].res.proxySource = Some("yt-dlp")
      /\ ~IsNull(resolutionCache[req[r].videoId])
      /\ Val(resolutionCache[req[r].videoId]).value.directUrl = UrlCli

\* C18: the CLI is invoked in a proxy call only after two 403 answers in a
\* row, the first fetch's and that of the fetch after the invalidation and
\* re-resolution; a first answer that is neither 200, 206 nor 403 fails the
\* call at once, with no invalidation, no re-resolution and no CLI call.
C18_CliOnlyAfterTwoForbidden ==
    \A r \in Reqs :
      LET q == req[r] IN
      q.kind = "proxy" =>
        /\ q.cliCalls >= 1 =>
             /\ Len(q.fetchLog) >= 2
             /\ q.fetchLog[1].status = 403 /\ q.fetchLog[2].status = 403
             /\ q.invalidations = 1
             /\ q.metaCalls = (IF IsNull(q.hitAtStart) THEN 2 ELSE 1)
        /\ (Len(q.fetchLog) >= 1
              /\ q.fetchLog[1].status \notin {0, 200, 206, 403}) =>
             /\ FailedWith(q, 502, "PLAYBACK_PROXY_STREAM_ERROR")
             /\ Len(q.fetchLog) = 1 /\ q.fetches = 1
             /\ q.invalidations = 0 /\ q.cliCalls = 0
             /\ q.metaCalls = (IF IsNull(q.hitAtStart) THEN 1 ELSE 0)

\* a call served from the cache failed on a first answer of 404 and left the
\* entry cached
C18_Witness ==
    \E r \in Reqs :
      /\ req[r].kind = "proxy" /\ ~IsNull(req[r].hitAtStart)
      /\ Statuses(req[r]) = <<404>>
      /\ FailedWith(req[r], 502, "PLAYBACK_PROXY_STREAM_ERROR")
      /\ req[r].metaCalls = 0
      /\ ~IsNull(resolutionCache[req[r].videoId])

\* the messages that contain "sign in to confirm" or "not a bot", in any
\* letter case
BotCheckMessages ==
    { <<"Sign", "in", "to", "confirm", "you're", "not", "a", "bot">>,
      <<"SIGN", "IN", "TO", "CONFIRM", "your", "age">> }

\* C19: a failure of the metadata fetch whose message contains "sign in to
\* confirm" or "not a bot", in any letter case, leaves resolve and proxy as
\* 503 YOUTUBE_BOT_CHECK; any other failure leaves them as the error thrown.
C19_BotCheckTranslated ==
    \A r \in Reqs :
      LET q == req[r] IN
      ~IsNull(q.lastThrown) =>
        IF Val(q.lastThrown).message \in BotCheckMessages
        THEN FailedWith(q, 503, "YOUTUBE_BOT_CHECK")
        ELSE /\ q.pc = "done" /\ q.outcome = "error"
             /\ ~Val(q.err).app
             /\ q.err = q.lastThrown

\* an upper-case message failed the re-resolution of a proxy call with 503
C19_Witness ==
    \E r \in Reqs :
      /\ req[r].kind = "proxy" /\ req[r].invalidations = 1
      /\ ~IsNull(req[r].lastThrown)
      /\ Val(req[r].lastThrown).message[1] = "SIGN"
      /\ FailedWith(req[r], 503, "YOUTUBE_BOT_CHECK")

\* C20: an error of the upstream body while it is piped is answered with the
\* JSON error envelope (502, PLAYBACK_PROXY_STREAM_ERROR) only if no headers
\* had been sent; once they had, the connection is destroyed and no envelope
\* is written.
C20_NoEnvelopeAfterHeaders ==
    \A r \in Reqs :
      LET q == req[r] IN
      /\ ~IsNull(q.streamError) =>
           IF Val(q.streamError).headersSent
           THEN IsNull(q.res.envelope) /\ q.res.destroyed
           ELSE /\ q.res.envelope =
                     Some([status |-> 502, code |-> "PLAYBACK_PROXY_STREAM_ERROR"])
                /\ q.res.statusCode = 502
                /\ ~q.res.destroyed
      /\ ~IsNull(q.res.envelope) =>
           (~IsNull(q.streamError) /\ ~Val(q.streamError).headersSent)

\* the body failed after a chunk had gone out: the connection was destroyed
C20_Witness ==
    \E r \in Reqs :
      /\ req[r].kind = "proxy" /\ req[r].pc = "done"
      /\ req[r].streamError = Some([headersSent |-> TRUE])
      /\ req[r].res.destroyed /\ IsNull(req[r].res.envelope)
      /\ req[r].res.statusCode \in {200, 206}

\* C24 as stated: for a URL whose expire parameter is an integer n of Unix
\* seconds the parser returns the timestamp that parses back to n * 1000 ms;
\* for an absent URL, a text that is no URL, a missing or empty expire, and an
\* expire that is not a finite number (not numeric at all, or infinite) it
\* returns null.
C24_ExpiryRoundTrip ==
    ~IsNull(unitOut) =>
      LET out == Val(unitOut).expiresAt IN
      IF ~IsNull(unitIn) /\ Val(unitIn).parsable /\ Val(unitIn).expire.kind = "num"
      THEN ~IsNull(out) /\ DateParse(Val(out)) = Val(unitIn).expire.n * 1000
      ELSE (IsNull(unitIn) \/ ~Val(unitIn).parsable
              \/ Val(unitIn).expire.kind
                   \in {"absent", "empty", "text", "blank", "infinite"})
             => IsNull(out)

\* what does hold: the same without the expire parameters of white space
\* only, for which the parser returns the timestamp of 0 ms
ExpiryRoundTripButBlank ==
    ~IsNull(unitOut) =>
      LET out == Val(unitOut).expiresAt IN
      IF ~IsNull(unitIn) /\ Val(unitIn).parsable /\ Val(unitIn).expire.kind = "num"
      THEN ~IsNull(out) /\ DateParse(Val(out)) = Val(unitIn).expire.n * 1000
      ELSE IF ~IsNull(unitIn) /\ Val(unitIn).parsable
                /\ Val(unitIn).expire.kind = "blank"
      THEN ~IsNull(out) /\ DateParse(Val(out)) = 0
      ELSE IsNull(out)

\* the text of a stdout line once trimmed begins with http:// or https://
StartsWithHttp(line) == line.scheme \in {"http://", "https://", "HTTPS://"}

HttpLineIndexes(out) == { i \in 1..Len(out) : StartsWithHttp(out[i]) }

\* C23: the External CLI Fallback never raises; it returns null when the
\* process fails in any way (non-zero exit, spawn failure, timeout, output
\* over the buffer) or prints no line that starts with http:// or https://,
\* and otherwise it returns the first such line of stdout, trimmed.
C23_CliNeverRaises ==
    (scope = "cli" /\ ~IsNull(unitOut)) =>
      LET got == Val(unitOut)
          idx == HttpLineIndexes(unitIn.stdout)
      IN /\ ~got.raised
         /\ IF unitIn.failure # "none" \/ idx = {}
            THEN IsNull(got.url)
            ELSE LET first == CHOOSE i \in idx : \A j \in idx : i <= j
                     line == unitIn.stdout[first]
                 IN got.url = Some(StdoutLine(FALSE, line.scheme, line.rest, FALSE))

\* a failed process whose partial output held a URL, and a padded URL line
\* taken after a line that is none
C23_Witness ==
    /\ scope = "cli"
    /\ ~IsNull(unitOut)
    /\ \/ /\ unitIn.failure = "timeout"
          /\ HttpLineIndexes(unitIn.stdout) # {}
          /\ IsNull(Val(unitOut).url)
       \/ /\ unitIn.failure = "none"
          /\ Len(unitIn.stdout) = 2
          /\ unitIn.stdout[1].scheme = "ftp://"
          /\ unitIn.stdout[2] = StdoutLine(TRUE, "HTTPS://", UrlCli, TRUE)
          /\ Val(unitOut).url = Some(StdoutLine(FALSE, "HTTPS://", UrlCli, FALSE))

\* the ranked audio-only list of the answer given to the format selection
RankedAudio == sortAudioFormats(filterAudioOnly(selectIn))

\* C25: a successful resolve returns a ResolvedPlayback whose candidates are
\* exactly the first min(5, n) formats of the ranked audio-only list of n
\* formats, whose selected format is candidates[0], whose directUrl is the
\* url of the selected format, and whose proxyUrl is non-null exactly when
\* the proxy flag is enabled.
C25_ResolvedShape ==
    (scope = "select" /\ ~IsNull(selectOut)
       /\ IsNull(Val(selectOut).outcome.error)) =>
      LET resolved == Val(Val(selectOut).outcome.resolved)
          n == Len(RankedAudio)
          k == IF n < 5 THEN n ELSE 5
      IN /\ n >= 1
         /\ Len(resolved.candidates) = k
         /\ \A i \in 1..k : resolved.candidates[i] = Describe(RankedAudio[i])
         /\ resolved.selected = resolved.candidates[1]
         /\ Some(resolved.directUrl) = RankedAudio[1].url
         /\ ~IsNull(resolved.proxyUrl) <=> proxyEnabled

\* six audio-only formats among seven, resolved with the proxy disabled
C25_Witness ==
    /\ scope = "select"
    /\ ~IsNull(selectOut)
    /\ IsNull(Val(selectOut).outcome.error)
    /\ Len(selectIn) = 7
    /\ Len(RankedAudio) = 6
    /\ Len(Val(Val(selectOut).outcome.resolved).candidates) = 5
    /\ ~proxyEnabled
    /\ IsNull(Val(Val(selectOut).outcome.resolved).proxyUrl)

\* the last operation on the cache on its own, and whether the entry it
\* found for its trackId was there and not expired
LastOp == Val(unitOut)
LastOpIs(op) == scope = "cache" /\ ~IsNull(unitOut) /\ LastOp.op = op
FoundEntry == LastOp.before[LastOp.videoId]
FoundLive == ~IsNull(FoundEntry) /\ LastOp.at < Val(FoundEntry).expiresAtMs
OthersUntouched ==
    \A w \in VideoIds \ {LastOp.videoId} : resolutionCache[w] = LastOp.before[w]

\* C26: get(trackId) returns the stored resolution if and only if an entry
\* exists and now < expiresAtMs; an entry found with now >= expiresAtMs is
\* removed and none is returned, so that after a get that returned none no
\* entry for that trackId remains; entries of other trackIds never change.
C26_GetLiveOrEvict ==
    LastOpIs("get") =>
      /\ LastOp.returned = IF FoundLive THEN Some(Val(FoundEntry).value) ELSE Null
      /\ FoundLive => resolutionCache[LastOp.videoId] = FoundEntry
      /\ IsNull(LastOp.returned) => IsNull(resolutionCache[LastOp.videoId])
      /\ OthersUntouched

\* a get at the very instant of the expiry: none returned, the entry removed,
\* the entry of the other trackId still there
C26_Witness ==
    /\ LastOpIs("get")
    /\ ~IsNull(FoundEntry)
    /\ LastOp.at = Val(FoundEntry).expiresAtMs
    /\ IsNull(LastOp.returned)
    /\ IsNull(resolutionCache[LastOp.videoId])
    /\ \E w \in VideoIds : ~IsNull(resolutionCache[w])

\* the entries stored for a resolution without a usable expiresAt, with the
\* instant at which each was stored
FallbackEntries ==
    { v \in VideoIds : /\ ~IsNull(resolutionCache[v])
                       /\ IsNull(Val(resolutionCache[v]).value.expiresAt) }

\* C27 as stated: an entry put at `now` for a resolution with a null or
\* unparsable expiresAt has expiresAtMs = now + 180 000 and stays retrievable
\* until then.
C27_FallbackThreeMinutes ==
    scope = "cache" =>
      \A v \in FallbackEntries :
        /\ ~IsNull(lastPut[v])
        /\ Val(resolutionCache[v]).expiresAtMs = Val(lastPut[v]).at + 180000

\* C27: an entry put at `now` for a resolution with a null or unparsable
\* expiresAt has expiresAtMs = now + 150 000, the 3-minute fallback less the
\* 30-second margin: get returns it at every instant before now + 150 000 and
\* returns none from that instant on.
C27_FallbackLessMargin ==
    scope = "cache" =>
      /\ \A v \in FallbackEntries :
           /\ ~IsNull(lastPut[v])
           /\ Val(resolutionCache[v]).expiresAtMs = Val(lastPut[v]).at + 150000
      /\ (LastOpIs("get") /\ ~IsNull(FoundEntry)
            /\ IsNull(Val(FoundEntry).value.expiresAt)) =>
           (~IsNull(LastOp.returned)
              <=> LastOp.at < Val(lastPut[LastOp.videoId]).at + 150000)

\* an entry without expiry put at T0 is returned 1 ms before T0 + 150 000
C27_Witness ==
    /\ LastOpIs("get")
    /\ ~IsNull(FoundEntry)
    /\ IsNull(Val(FoundEntry).value.expiresAt)
    /\ Val(lastPut[LastOp.videoId]).at = T0
    /\ LastOp.at = T0 + 149999
    /\ ~IsNull(LastOp.returned)

\* C28 as stated: without a live entry for trackId the patch is a no-op.
C28_PatchNoOpUnlessLive ==
    (LastOpIs("patch") /\ ~FoundLive) => resolutionCache = LastOp.before

\* C28: patchUrl(trackId, newUrl) never creates an entry: without a live
\* entry for trackId the map afterwards holds none for it (an absent entry
\* stays absent, an expired one is removed); with a live entry the new entry
\* differs from the old one only in directUrl = newUrl, expiresAt = Expiry
\* Parser(newUrl) and the recomputed expiresAtMs; the entries of the other
\* trackIds never change.
C28_PatchOnlyLive ==
    LastOpIs("patch") =>
      LET v == LastOp.videoId
          newUrl == Val(LastOp.arg)
      IN /\ OthersUntouched
         /\ ~FoundLive => IsNull(resolutionCache[v])
         /\ IsNull(FoundEntry) => resolutionCache = LastOp.before
         /\ FoundLive =>
              LET old == Val(FoundEntry).value
                  new == Val(resolutionCache[v]).value
              IN /\ new.directUrl = newUrl
                 /\ new.expiresAt = parseExpiryFromUrl(Some(newUrl))
                 /\ Val(resolutionCache[v]).expiresAtMs
                      = EntryExpiresAtMs(new, LastOp.at)
                 /\ new = [old EXCEPT !.directUrl = newUrl,
                                      !.expiresAt = new.expiresAt]

\* a live entry patched with a URL of another expiry, and its expiry moved
C28_Witness ==
    /\ LastOpIs("patch")
    /\ FoundLive
    /\ Val(LastOp.arg) = UrlCli
    /\ Val(FoundEntry).value.directUrl = UrlPlain
    /\ Val(resolutionCache[LastOp.videoId]).value.directUrl = UrlCli
    /\ Val(resolutionCache[LastOp.videoId]).expiresAtMs # Val(FoundEntry).expiresAtMs
    /\ \E w \in VideoIds \ {LastOp.videoId} : ~IsNull(resolutionCache[w])

\* C29: invalidate(trackId) removes the entry for trackId whether it is
\* there or not, expired or not, and changes no other entry; from then on,
\* until a later put for that trackId, the map holds no entry for it, so
\* get(trackId) returns none.
C29_InvalidateRemoves ==
    scope = "cache" =>
      /\ LastOpIs("invalidate") =>
           /\ IsNull(resolutionCache[LastOp.videoId])
           /\ OthersUntouched
      /\ \A v \in VideoIds : IsNull(lastPut[v]) => IsNull(resolutionCache[v])
      /\ (LastOpIs("get") /\ IsNull(lastPut[LastOp.videoId])) =>
           IsNull(LastOp.returned)

\* a live entry invalidated while the other trackId keeps its own
C29_Witness ==
    /\ LastOpIs("invalidate")
    /\ FoundLive
    /\ IsNull(resolutionCache[LastOp.videoId])
    /\ \E w \in VideoIds \ {LastOp.videoId} : ~IsNull(resolutionCache[w])

\* the call has done nothing since the client went away
NothingSinceDisconnect(q) ==
    LET was == Val(q.atDisconnect) IN
    /\ q.pc \in {"streaming", "done"}
    /\ q.metaCalls = was.metaCalls
    /\ q.fetches = was.fetches
    /\ q.invalidations = was.invalidations
    /\ q.cliCalls = was.cliCalls
    /\ q.cacheWrites = was.cacheWrites
    /\ resolutionCache = was.cache

MissedAndFetched(q) ==
    /\ q.kind \in {"resolve", "proxy"}
    /\ q.videoId = "v1"
    /\ IsNull(q.hitAtStart)
    /\ q.metaCalls >= 1

\* C22: two requests for the same uncached trackId in flight at once can
\* both miss the cache and both call the metadata fetcher; whatever the
\* interleaving, an entry the cache holds for the trackId is the one of the
\* request that put last, there is one put and one entry per resolution, and
\* each request carries on with the resolution built from its own answer.
C22_LastPutWins ==
    scope = "concurrent" =>
      /\ ~IsNull(resolutionCache["v1"]) =>
           /\ ~IsNull(lastPut["v1"])
           /\ Val(resolutionCache["v1"]).value = Val(lastPut["v1"]).value
           /\ Val(resolutionCache["v1"]).expiresAtMs =
                EntryExpiresAtMs(Val(lastPut["v1"]).value, Val(lastPut["v1"]).at)
      /\ IsNull(resolutionCache["v2"])
      /\ \A r \in Reqs :
           (~IsNull(req[r].lastInfo) /\ ~IsNull(req[r].resolved)
              /\ req[r].outcome # "error") =>
             /\ req[r].resolved =
                  ResolveOutcome(req[r].videoId, Val(req[r].lastInfo)).resolved
             /\ (req[r].kind = "proxy" /\ req[r].fetches = 1) =>
                  req[r].fetchUrl = Some(Val(req[r].resolved).directUrl)

\* both requests missed, both asked the metadata fetcher and got different
\* answers; the second to put owns the entry, the first keeps its own
C22_Witness ==
    /\ scope = "concurrent"
    /\ \A r \in Reqs : MissedAndFetched(req[r]) /\ req[r].cacheWrites = 1
    /\ req[1].kind = "resolve" /\ req[1].pc = "done" /\ req[1].outcome = "ok"
    /\ req[2].kind = "proxy" /\ req[2].fetches = 1
    /\ req[1].resolved # req[2].resolved
    /\ ~IsNull(resolutionCache["v1"])
    /\ Val(lastPut["v1"]).by = 2
    /\ Val(resolutionCache["v1"]).value = Val(req[2].resolved)
    /\ Val(resolutionCache["v1"]).value # Val(req[1].resolved)

\* C30 as stated: over any sequence of resolve/proxy calls the agent factory
\* is invoked at most once, and nothing is parsed or built after the first
\* successful build.
C30_FactoryCalledOnce ==
    scope = "agent" => (agentLog.factoryCalls <= 1 /\ agentLog.late = 0)

\* C30: the cookie agent is built at most once per process: this.agent is
\* assigned at most once (an agent, or null when there are no cookies), and
\* from then on no call parses the cookie configuration or invokes the
\* factory again.  A build that throws, in the parsing or in the factory,
\* assigns nothing, and the next call parses and builds again.
C30_BuiltOnce ==
    scope = "agent" =>
      /\ agentLog.builds <= 1
      /\ agentLog.late = 0
      /\ (agent # Undefined) <=> (agentLog.builds = 1)
      /\ agentLog.builds = 1 =>
           agentLog.factoryCalls = (IF agent = NullAgent THEN 0 ELSE 1)
      /\ agentLog.builds = 0 => agentLog.factoryCalls \in {0, agentLog.parses}

\* a second call that found the agent of the first
C30_Witness ==
    /\ scope = "agent"
    /\ agent.state = "agent"
    /\ callsStarted = 2
    /\ req[1].agentCalls = 1
    /\ agentLog = [parses |-> 1, factoryCalls |-> 1, builds |-> 1, late |-> 0]

\* the entries of a JSON array that are objects with a name and a value, both
\* non-empty strings
UsableEntries(entries) ==
    SelectSeq(entries,
              LAMBDA entry : /\ entry.type = "object"
                             /\ entry.name.type = "string" /\ entry.name.text # <<>>
                             /\ entry.value.type = "string" /\ entry.value.text # <<>>)

\* the parts of a header: [from, to] with a ";" or an end of the text on
\* either side and no ";" within
HeaderParts(text) ==
    LET ends == {0, Len(text) + 1} \cup { i \in 1..Len(text) : text[i] = ";" } IN
    { <<p, q>> \in ends \X ends :
        p < q /\ ~\E s \in ends : p < s /\ s < q }

FirstEquals(part) ==
    IF \E i \in 1..Len(part) : part[i] = "="
    THEN CHOOSE i \in 1..Len(part) :
            part[i] = "=" /\ \A j \in 1..(i - 1) : part[j] # "="
    ELSE 0

PartText(text, part) == SubSeq(text, part[1] + 1, part[2] - 1)
PartName(text, part) ==
    LET t == PartText(text, part) IN TrimText(SubSeq(t, 1, FirstEquals(t) - 1))
PartValue(text, part) ==
    LET t == PartText(text, part) IN TrimText(SubSeq(t, FirstEquals(t) + 1, Len(t)))

\* a part with an "=", a name before the first one and a value after it
PairParts(text) ==
    { part \in HeaderParts(text) :
        /\ FirstEquals(PartText(text, part)) > 0
        /\ PartName(text, part) # <<>>
        /\ PartValue(text, part) # <<>> }

\* C31: a configured cookie JSON gives exactly its entries that are objects
\* with non-empty string name and value, or a status 500 configuration error
\* when it is malformed, not an array or without a usable entry, and the
\* header is not consulted; without JSON the header gives one cookie per
\* name=value part, in order, paired on the first "=", other parts skipped;
\* with neither the result is empty.
C31_CookieSource ==
    (scope = "cookies" /\ ~IsNull(unitOut)) =>
      LET out == Val(unitOut)
          jsonSet == ~IsNull(unitIn.json) /\ ~Val(unitIn.json).empty
          headerSet == ~IsNull(unitIn.header) /\ Val(unitIn.header) # <<>>
      IN IF jsonSet
         THEN LET json == Val(unitIn.json)
                  usable == UsableEntries(json.entries)
              IN /\ ~out.headerRead
                 /\ IF ~json.parses \/ ~json.isArray \/ usable = <<>>
                    THEN /\ ~IsNull(out.thrown)
                         /\ Val(out.thrown).app
                         /\ Val(out.thrown).status = 500
                         /\ Val(out.thrown).code = "INVALID_YTDL_COOKIES_JSON"
                    ELSE IsNull(out.thrown) /\ out.cookies = usable
         ELSE IF headerSet
         THEN LET text == Val(unitIn.header)
                  pairs == PairParts(text)
              IN /\ IsNull(out.thrown)
                 /\ Len(out.cookies) = Cardinality(pairs)
                 /\ \A part \in pairs :
                      LET k == Cardinality({ other \in pairs : other[1] <= part[1] })
                      IN /\ out.cookies[k].name = PartName(text, part)
                         /\ out.cookies[k].value = PartValue(text, part)
                         /\ out.cookies[k].domain = ".youtube.com"
         ELSE IsNull(out.thrown) /\ out.cookies = <<>>

\* a JSON array with a usable and an unusable entry, beside a header with a
\* pair: the usable entry alone is returned
C31_Witness ==
    /\ scope = "cookies"
    /\ ~IsNull(unitOut)
    /\ unitIn.json = Some(JsonArray(<<JsonObject(JString(<<"a">>), JNumber, ".youtube.com"),
                                      JsonObject(JString(<<"a">>), JString(<<"a">>), ".youtube.com")>>))
    /\ unitIn.header = Some(<<"a", "=", "b">>)
    /\ Val(unitOut).cookies
         = <<JsonObject(JString(<<"a">>), JString(<<"a">>), ".youtube.com")>>
    /\ ~Val(unitOut).headerRead

\* a header whose second part has two "=" and whose third has none
C31_HeaderWitness ==
    /\ scope = "cookies"
    /\ ~IsNull(unitOut)
    /\ unitIn.json = Null
    /\ unitIn.header = Some(<<"a", ";", "b", "=", "=">>)
    /\ Val(unitOut).cookies = <<HeaderCookie(<<"b">>, <<"=">>)>>

\* C32: when the cookie configuration is rejected, every resolve or proxy call
\* that reaches getInfo fails with that very error (status 500, code
\* INVALID_YTDL_COOKIES_JSON), not with YOUTUBE_BOT_CHECK; the call asks
\* ytdl.getInfo nothing, fetches nothing, runs no CLI and writes no cache
\* entry; no agent is kept, so each later call parses and fails again.
C32_CookieErrorVerbatim ==
    (scope = "agent" /\ ~IsNull(parseConfiguredYtdlCookies(cookieConfig).thrown)) =>
      /\ resolutionCache = EmptyCache
      /\ agent = Undefined
      /\ agentLog.parses = callsStarted
      /\ \A r \in Reqs :
           req[r].pc # "idle" =>
             /\ req[r].pc = "done" /\ req[r].outcome = "error"
             /\ req[r].err = parseConfiguredYtdlCookies(cookieConfig).thrown
             /\ Val(req[r].err).status = 500
             /\ Val(req[r].err).code = "INVALID_YTDL_COOKIES_JSON"
             /\ req[r].agentCalls = 1
             /\ req[r].metaCalls = 0 /\ req[r].fetches = 0
             /\ req[r].cliCalls = 0 /\ req[r].cacheWrites = 0
             /\ req[r].invalidations = 0

\* a second call, a proxy call, failing as the first did on a JSON array
\* without a usable entry
C32_Witness ==
    /\ scope = "agent"
    /\ callsStarted = 2
    /\ agentLog.parses = 2
    /\ req[1].kind = "proxy"
    /\ req[1].err = Some(InvalidCookiesJson(NoValidCookiesMessage))

\* the content length of the selected format is null, zero or not finite
LengthUnknown(contentLength) ==
    contentLength \in {Null, Some(0), Some(NaN), Some(Infinity)}

\* C33: when the selected format's content length is unknown, proxy does not
\* validate the range: it does not fail (no 416), leaves the status at its
\* default and sets no Content-Range or Content-Length, and goes on to the
\* upstream fetch with the inbound Range header as it came (no Range header
\* when the request had none, or an empty one).
C33_UnknownLengthPassesRange ==
    (scope = "range" /\ ~IsNull(rangeOut) /\ LengthUnknown(rangeIn.contentLength)) =>
      LET q == Val(rangeOut) IN
      /\ q.pc = "awaitFetch" /\ q.fetches = 1
      /\ IsNull(q.err)
      /\ q.res.statusCode = EmptyResponse.statusCode
      /\ IsNull(q.res.contentRange)
      /\ IsNull(q.res.contentLength)
      /\ q.upstreamRange =
           (IF IsNull(rangeIn.header) \/ Val(rangeIn.header).empty
            THEN Null
            ELSE Some([computed |-> FALSE, start |-> 0, end |-> 0,
                       header |-> rangeIn.header]))

\* a format of length zero and a header no range can be read from, which
\* goes upstream as it is
C33_Witness ==
    /\ scope = "range"
    /\ ~IsNull(rangeOut)
    /\ rangeIn.contentLength = Some(0)
    /\ rangeIn.header = NoMatchHeader
    /\ Val(rangeOut).pc = "awaitFetch"
    /\ ~IsNull(Val(rangeOut).upstreamRange)
    /\ Val(Val(rangeOut).upstreamRange).header = NoMatchHeader

\* the Range value proxy computes from the request and a total length
RangeFor(rangeHeader, totalLength) ==
    UpstreamRangeOf(ComputeRange(rangeHeader, totalLength).byteRange, rangeHeader)

\* C34: every outbound audio fetch of a proxy call (the first, the one after
\* the re-resolution, the one against the CLI URL) carries the Range computed
\* from the request and the total length of the format first selected,
\* whatever the length of the format selected by the re-resolution.
C34_OneRangePerCall ==
    scope = "sequential" =>
      \A r \in Reqs :
        LET q == req[r] IN
        (q.kind = "proxy" /\ ~IsNull(q.firstLength)) =>
          \A i \in 1..Len(q.fetchLog) :
            q.fetchLog[i].range
              = RangeFor(q.rangeHeader, Val(q.firstLength).totalLength)

\* three fetches with the Range of a format of length 4, the second one made
\* after a re-resolution that selected a format of unknown length
C34_Witness ==
    /\ scope = "sequential"
    /\ req[1].kind = "proxy"
    /\ req[1].rangeHeader = RangeHeader(<<1>>, <<2>>)
    /\ req[1].firstLength = Some([totalLength |-> Some(4)])
    /\ Len(req[1].fetchLog) = 3
    /\ IsNull(Val(req[1].resolved).selected.contentLength)
    /\ \A i \in 1..3 :
         req[1].fetchLog[i].range
           = Some([computed |-> TRUE, start |-> 1, end |-> 2, header |-> Null])

\* C35 as stated: the invalidation that a proxy call performs after a 403
\* removes only an entry whose directUrl is the URL that answered 403 to that
\* call, never an entry that another request has put in the meantime.
C35_InvalidatesOnlyForbidden ==
    [][scope = "concurrent" =>
         \A r \in Reqs :
           (req'[r].invalidations = req[r].invalidations + 1
              /\ ~IsNull(resolutionCache[req[r].videoId])) =>
             Val(resolutionCache[req[r].videoId]).value.directUrl
               = Val(req[r].fetchUrl)]_vars

\* C36: every entry of the Resolution Cache is stored under the videoId of
\* its value, whatever get, put, patchUrl and invalidate have done, and what
\* get(k) returns, if anything, is a resolution of k.
C36_KeyedByVideoId ==
    /\ \A k \in VideoIds :
         ~IsNull(resolutionCache[k]) => Val(resolutionCache[k]).value.videoId = k
    /\ LastOpIs("get") =>
         (IsNull(LastOp.returned) \/ Val(LastOp.returned).videoId = LastOp.videoId)
    /\ \A r \in Reqs :
         ~IsNull(req[r].hitAtStart) => Val(req[r].hitAtStart).videoId = req[r].videoId

\* both tracks cached, the second with a patched URL, and a get that returned
\* the first
C36_Witness ==
    /\ LastOpIs("get")
    /\ LastOp.videoId = "v1"
    /\ ~IsNull(LastOp.returned)
    /\ ~IsNull(resolutionCache["v1"])
    /\ ~IsNull(resolutionCache["v2"])
    /\ Val(resolutionCache["v2"]).value.directUrl = UrlCli

\* a proxy call whose re-resolution after the 403 has failed
ReResolutionFailed(q) ==
    /\ q.kind = "proxy" /\ q.invalidations = 1
    /\ q.pc = "done" /\ q.outcome = "error" /\ q.attempt = 1

\* what resolve throws for what getInfo last threw or answered
ResolveErrorOf(q) ==
    IF ~IsNull(q.lastThrown)
    THEN (IF looksLikeYouTubeBotCheck(Val(q.lastThrown))
          THEN AppError(503, "YouTube blocked playback resolution",
                        "YOUTUBE_BOT_CHECK", 0)
          ELSE Val(q.lastThrown))
    ELSE Val(ResolveOutcome(q.videoId, Val(q.lastInfo)).error)

\* C37: when the re-resolution that follows a 403 fails, the proxy call fails
\* with the error of resolve and not with the proxy stream error; it has made
\* the one fetch that answered 403 and makes no other, runs no CLI, and no
\* entry for the trackId is left in the cache.
C37_FailedReResolution ==
    scope = "sequential" =>
      \A r \in Reqs :
        ReResolutionFailed(req[r]) =>
          LET q == req[r] IN
          /\ q.err = Some(ResolveErrorOf(q))
          /\ Val(q.err).code # "PLAYBACK_PROXY_STREAM_ERROR"
          /\ q.fetches = 1 /\ Statuses(q) = <<403>>
          /\ q.cliCalls = 0
          /\ q.cacheWrites = (IF IsNull(q.hitAtStart) THEN 1 ELSE 0)
          /\ IsNull(resolutionCache[q.videoId])

\* a call served from the cache whose URL answered 403 and whose
\* re-resolution met the anti-bot challenge
C37_Witness ==
    /\ scope = "sequential"
    /\ ReResolutionFailed(req[1])
    /\ ~IsNull(req[1].hitAtStart)
    /\ Val(req[1].err).code = "YOUTUBE_BOT_CHECK"
    /\ IsNull(resolutionCache["v1"])

InFlight == { k \in 1..Len(ytmusic.attempts) : ytmusic.attempts[k].state = "calling" }

\* C38: at most one client.initialize call is in flight, and it is the one
\* in the slot; a caller that found an attempt in the slot awaits that
\* attempt, one that found the slot empty awaits the attempt it started; no
\* attempt starts once initialized is true; a failed attempt is no longer in
\* the slot once its catch handler has run.
C38_SingleFlight ==
    scope = "ytmusic" =>
      /\ Cardinality(InFlight) <= 1
      /\ \A k \in InFlight : ytmusic.initPromise = Some(k)
      /\ \A c \in Callers :
           LET caller == ytmusic.callers[c] IN
           caller.pc = "awaiting" =>
             IF IsNull(caller.found)
             THEN ytmusic.attempts[caller.awaits].by = c
             ELSE caller.awaits = Val(caller.found)
                    /\ ytmusic.attempts[caller.awaits].by # c
      /\ \A k \in 1..Len(ytmusic.attempts) :
           /\ ~ytmusic.attempts[k].late
           /\ ytmusic.attempts[k].state = "rejected" => ytmusic.initPromise # Some(k)
      /\ ytmusic.initialized => InFlight = {}

\* after a failed first attempt, a second one in flight that one caller
\* started and another awaits with it
C38_Witness ==
    /\ scope = "ytmusic"
    /\ Len(ytmusic.attempts) = 2
    /\ ytmusic.attempts[1].state = "rejected"
    /\ ytmusic.attempts[2].state = "calling"
    /\ ytmusic.initPromise = Some(2)
    /\ Cardinality({ c \in Callers : ytmusic.callers[c].pc = "awaiting"
                                       /\ ytmusic.callers[c].awaits = 2 }) = 2

\* the path parameter is missing or made of blanks only
BlankParam(rawParam) ==
    IsNull(rawParam) \/ \A i \in 1..Len(Val(rawParam)) : Val(rawParam)[i] = " "

\* C39: the error handler answers every error with an envelope whose ok is
\* false and that has an error code and a message; the status and the code
\* are those of the error when it is an AppError, 500 and
\* INTERNAL_SERVER_ERROR otherwise.  A playback route whose path parameter is
\* blank answers 400 without calling the resolver.
C39_ErrorEnvelope ==
    (scope = "http" /\ ~IsNull(unitOut)) =>
      LET out == Val(unitOut) IN
      /\ unitIn.kind = "error" =>
           LET response == Val(out.response)
               error == unitIn.thrown.error
           IN /\ response.body.ok = FALSE
              /\ response.body.error.code # ""
              /\ response.body.error.message
                   = (IF unitIn.thrown.isError THEN error.message
                      ELSE <<"Unexpected server error">>)
              /\ IF unitIn.thrown.isError /\ error.app
                 THEN /\ response.status = error.status
                      /\ response.body.error.code = error.code
                 ELSE /\ response.status = 500
                      /\ response.body.error.code = "INTERNAL_SERVER_ERROR"
      /\ (unitIn.kind = "route" /\ BlankParam(unitIn.rawParam)) =>
           /\ out.resolverCalls = <<>>
           /\ ~IsNull(out.response)
           /\ Val(out.response).status = 400
           /\ Val(out.response).body.ok = FALSE
           /\ Val(out.response).body.error.code = "MISSING_PATH_PARAM"
      /\ (unitIn.kind = "route" /\ ~BlankParam(unitIn.rawParam)) =>
           /\ Len(out.resolverCalls) = 1
           /\ IsNull(out.response)

\* an AppError with status 416 answered with its own status and code
C39_Witness ==
    /\ scope = "http"
    /\ ~IsNull(unitOut)
    /\ unitIn.kind = "error"
    /\ unitIn.thrown.isError /\ unitIn.thrown.error.app
    /\ unitIn.thrown.error.status = 416
    /\ Val(Val(unitOut).response).status = 416
    /\ Val(Val(unitOut).response).body.error.code = "INVALID_RANGE_HEADER"
    /\ ~Val(Val(unitOut).response).body.ok

\* the stream route asked with a parameter of blanks
C39_BlankWitness ==
    /\ scope = "http"
    /\ ~IsNull(unitOut)
    /\ unitIn.kind = "route" /\ unitIn.route = "stream"
    /\ unitIn.rawParam = Some(<<" ", " ">>)
    /\ Val(Val(unitOut).response).status = 400

====
